---- MODULE Spec2Model ----
(***************************************************************************)
(* Model of the task orchestration engine of claude-orchestrator:          *)
(* the QueueManager control loop (engine/queue, kept in state.ts), the     *)
(* TaskRunner executor (engine/runner.ts), the state store (engine/state)  *)
(* and the dependency graph resolver (engine/dag).                         *)
(*                                                                         *)
(* Spec runs a batch from construction; ResumeSpec runs a batch resumed    *)
(* from a saved state; StoreSpec and DagSpec apply the functions of the    *)
(* state store and of the resolver to bounded sets of inputs; EscSpec      *)
(* follows the responses to escalations, CommandSpec the run and resume    *)
(* commands, and FileSpec the writes of the state file.                    *)
(*                                                                         *)
(* The program runs on the single-threaded JavaScript event loop: code     *)
(* between two awaits is one atomic step.  Every action below is one such  *)
(* step of the control loop, of an executor, or one call of the operator.  *)
(***************************************************************************)
EXTENDS Integers, Sequences, FiniteSets, TLC

VARIABLES
    batch,              \* this.batch.tasks: the descriptors, in declaration order
    maxConcurrent,      \* this.options.maxConcurrent
    status,             \* this.state.tasks[id].status
    batchStatus,        \* this.state.status
    pc,                 \* position of start() / processLoop()
    completed,          \* processLoop's local Set completed
    failed,             \* processLoop's local Set failed
    running,            \* processLoop's local Set running, in insertion order
    runners,             \* this.runners: the executor of each task and where it is
    aborted,            \* runner.abortController.signal.aborted (FALSE without a runner)
    pendingEscalations, \* keys of this.pendingEscalations
    paused,             \* this.paused
    retried,            \* history: ids for which retryTask succeeded
    cancelHist,         \* history: ids whose active runner got cancelTask
    cancelAllCalled,    \* history: cancelAll was called during the run
    restarted,          \* history: ids started again after the loop counted them failed
    escCancelled,       \* history: ids whose executor was aborted while it waited for an escalation response
    opCalls,            \* history: number of operator calls made so far
    cost,               \* this.state.tasks[id].cost
    totalCost,          \* this.state.totalCost
    call                \* one call of an exported function: its input and what it returned;
                        \* in EscSpec, CommandSpec and FileSpec what their headers say

\* the variables of the manager and its executors
managerVars ==
    <<batch, maxConcurrent, status, batchStatus, pc, completed, failed,
      running, runners, aborted, pendingEscalations, paused, retried,
      cancelHist, cancelAllCalled, restarted, escCancelled, opCalls,
      cost, totalCost>>

vars == <<batch, maxConcurrent, status, batchStatus, pc, completed, failed,
          running, runners, aborted, pendingEscalations, paused, retried,
          cancelHist, cancelAllCalled, restarted, escCancelled, opCalls,
          cost, totalCost, call>>

----------------------------------------------------------------------------
(* Bounds of the model *)

MinConcurrent == 1
MaxConcurrentLimit == 2
\* number of calls the operator makes in one run
MaxOperatorCalls == 2

----------------------------------------------------------------------------
(* Batches the model runs *)

Task(id, deps) == [id |-> id, dependsOn |-> deps]

AllIds == {"A", "B", "C", "D", "F", "G", "P", "Q", "R"}

\* A, B<-A, C<-A, D<-B,C
DiamondBatch ==
    << Task("A", <<>>), Task("B", <<"A">>), Task("C", <<"A">>), Task("D", <<"B", "C">>) >>

\* F, G<-F
ChainBatch == << Task("F", <<>>), Task("G", <<"F">>) >>

\* three independent tasks
IndependentBatch == << Task("P", <<>>), Task("Q", <<>>), Task("R", <<>>) >>

Batches == {DiamondBatch, ChainBatch, IndependentBatch}

Range(s) == {s[i] : i \in 1..Len(s)}

Ids == {batch[i].id : i \in 1..Len(batch)}

TaskStatuses == {"pending", "running", "completed", "failed", "cancelled"}
Terminal == {"completed", "failed", "cancelled"}

----------------------------------------------------------------------------
(* Dependency graph resolver: ready-set query *)

DepsCompletedSome(task, completedSet) ==
    \/ Len(task.dependsOn) = 0
    \/ \E i \in 1..Len(task.dependsOn) : task.dependsOn[i] \in completedSet

\* deps.every(d => completed.has(d))
DepsCompleted(task, completedSet) ==
    \A i \in 1..Len(task.dependsOn) : task.dependsOn[i] \in completedSet

ReadyIgnoringRunning(tasks, completedSet, runningSet) ==
    SelectSeq(tasks, LAMBDA task :
        /\ ~(task.id \in completedSet)
        /\ DepsCompleted(task, completedSet))

\* getReadyTasks(tasks, completed, running)
getReadyTasks(tasks, completedSet, runningSet) ==
    SelectSeq(tasks, LAMBDA task :
        /\ ~(task.id \in completedSet \/ task.id \in runningSet)
        /\ DepsCompleted(task, completedSet))

\* taskMap.get(id).dependsOn ?? []
DependsOnOf(tasks, id) ==
    IF \E i \in 1..Len(tasks) : tasks[i].id = id
    THEN (CHOOSE task \in Range(tasks) : task.id = id).dependsOn
    ELSE <<>>

\* the breadth-first loop of getDependencies over its queue
RECURSIVE DependenciesBFS(_, _, _)
DependenciesBFS(tasks, queue, dependencies) ==
    IF Len(queue) = 0 THEN dependencies
    ELSE LET current == Head(queue) IN
         IF current \in dependencies
         THEN DependenciesBFS(tasks, Tail(queue), dependencies)
         ELSE DependenciesBFS(tasks, Tail(queue) \o DependsOnOf(tasks, current),
                              dependencies \cup {current})

\* getDependencies(tasks, taskId)
getDependencies(tasks, taskId) ==
    LET dependencies == DependenciesBFS(tasks, DependsOnOf(tasks, taskId), {})
    IN SelectSeq(tasks, LAMBDA task : task.id \in dependencies)

----------------------------------------------------------------------------
(* State store helpers *)

\* Array.prototype.slice(0, end)
Slice0(s, end) ==
    IF end >= 0
    THEN SubSeq(s, 1, IF end < Len(s) THEN end ELSE Len(s))
    ELSE SubSeq(s, 1, IF Len(s) + end > 0 THEN Len(s) + end ELSE 0)

\* updateTaskState(state, taskId, {status: ...}), on the status field
updateTaskState(st, taskId, newStatus) == [st EXCEPT ![taskId] = newStatus]

\* getBatchStats(state).failed / .cancelled
StatsFailed(st) == Cardinality({t \in DOMAIN st : st[t] = "failed"})
StatsCancelled(st) == Cardinality({t \in DOMAIN st : st[t] = "cancelled"})

----------------------------------------------------------------------------
(* The state store on whole task records (types/task.ts, engine/state.ts)   *)

\* an optional field that is undefined, and one that holds v
Undefined == <<>>
Some(v) == <<v>>
Optional(S) == {Undefined} \cup {Some(v) : v \in S}

\* Dates, in milliseconds since the epoch
MaxTime == 1
Dates == 0..MaxTime

\* task costs
MaxCost == 1

\* TaskState
TaskStates ==
    [status : TaskStatuses, sessionId : Optional({"s1"}),
     startedAt : Optional(Dates), completedAt : Optional(Dates),
     cost : 0..MaxCost, result : Optional({"out"}), error : Optional({"err"}),
     currentTool : Optional({"Bash"}), progress : Optional({"text"})]

\* the task state createBatchState builds, which is also updateTaskState's
\* default for an id the state does not hold
NewTaskState ==
    [status |-> "pending", sessionId |-> Undefined, startedAt |-> Undefined,
     completedAt |-> Undefined, cost |-> 0, result |-> Undefined,
     error |-> Undefined, currentTool |-> Undefined, progress |-> Undefined]

\* a task that was started in an earlier session, in each status
StartedTaskStates ==
    {[NewTaskState EXCEPT !.status = st, !.sessionId = Some("s1"),
                          !.startedAt = Some(0)] : st \in TaskStatuses}

BatchStatuses == {"pending", "running", "completed", "failed", "cancelled"}

\* BatchState without its tasks
BatchHeaders ==
    [batchId : {"batch-1"}, yamlPath : {"tasks.yaml"}, startedAt : Dates,
     completedAt : Optional(Dates), status : BatchStatuses,
     totalCost : 0..MaxCost]

RunningHeader ==
    [batchId |-> "batch-1", yamlPath |-> "tasks.yaml", startedAt |-> 0,
     completedAt |-> Undefined, status |-> "running", totalCost |-> 0]

\* BatchState
BatchState(header, tasks) ==
    [batchId |-> header.batchId, yamlPath |-> header.yamlPath,
     startedAt |-> header.startedAt, completedAt |-> header.completedAt,
     status |-> header.status, totalCost |-> header.totalCost, tasks |-> tasks]

\* a function of the store is about to be called on state
NoCallOn(state) ==
    [op |-> "none", arg |-> "", before |-> state, after |-> state,
     error |-> "none"]

replaceTaskFields(state, taskId, update) ==
    LET merged == [k \in DOMAIN NewTaskState |->
                      IF k \in DOMAIN update THEN update[k] ELSE NewTaskState[k]]
    IN [state EXCEPT !.tasks =
           [id \in DOMAIN state.tasks \cup {taskId} |->
               IF id = taskId THEN merged ELSE state.tasks[id]]]

\* updateTaskState(state, taskId, update): update is a record of the fields
\* to overwrite ({...existingTask, ...update})
updateTaskFields(state, taskId, update) ==
    LET existingTask == IF taskId \in DOMAIN state.tasks
                        THEN state.tasks[taskId] ELSE NewTaskState
        merged == [k \in DOMAIN existingTask |->
                      IF k \in DOMAIN update THEN update[k] ELSE existingTask[k]]
    IN [state EXCEPT !.tasks =
           [id \in DOMAIN state.tasks \cup {taskId} |->
               IF id = taskId THEN merged ELSE state.tasks[id]]]

----------------------------------------------------------------------------
(* Construction *)

\* no exported function is being called
NoCall == [op |-> "none"]

\* the sum processLoop computes over Object.values(this.state.tasks)
RECURSIVE SumCost(_, _)
SumCost(c, ids) ==
    IF ids = {} THEN 0
    ELSE LET t == CHOOSE x \in ids : TRUE IN c[t] + SumCost(c, ids \ {t})

\* createBatchState(batchId, batchName, yamlPath, taskIds): every task gets
\* status pending and cost 0, and the batch totalCost 0
createBatchState(taskIds) ==
    BatchState([RunningHeader EXCEPT !.status = "pending"],
               [t \in taskIds |-> NewTaskState])

\* a manager that holds state and has not been started: the constructor's
\* fields, with this.state as given
Installed(tasks, limit, state) ==
    /\ batch = tasks
    /\ maxConcurrent = limit
    /\ status = [t \in DOMAIN state.tasks |-> state.tasks[t].status]
    /\ cost = [t \in DOMAIN state.tasks |-> state.tasks[t].cost]
    /\ totalCost = state.totalCost
    /\ batchStatus = state.status
    /\ pc = "idle"
    /\ completed = {}
    /\ failed = {}
    /\ running = <<>>
    /\ runners = [t \in Ids |-> "none"]
    /\ aborted = [t \in Ids |-> FALSE]
    /\ pendingEscalations = {}
    /\ paused = FALSE
    /\ retried = {}
    /\ cancelHist = {}
    /\ cancelAllCalled = FALSE
    /\ restarted = {}
    /\ escCancelled = {}
    /\ opCalls = 0

\* new QueueManager(batch, yamlPath, options)
Constructed(tasks, limit) ==
    Installed(tasks, limit, createBatchState({tasks[i].id : i \in 1..Len(tasks)}))

Init ==
    /\ \E tasks \in Batches, limit \in MinConcurrent..MaxConcurrentLimit :
          Constructed(tasks, limit)
    /\ call = NoCall

----------------------------------------------------------------------------
(* QueueManager.start and processLoop *)

\* start(): this.state.status = 'running', then processLoop is entered
start ==
    /\ pc = "idle"
    /\ batchStatus' = "running"
    /\ pc' = "top"
    /\ UNCHANGED <<batch, maxConcurrent, status, completed, failed, running,
                   runners, aborted, pendingEscalations, paused, retried,
                   cancelHist, cancelAllCalled, restarted, escCancelled, opCalls,
                   cost, totalCost, call>>

\* while (completed.size + failed.size < this.batch.tasks.length)
LoopCond == Cardinality(completed) + Cardinality(failed) < Len(batch)

AvailableIgnoringRunning == maxConcurrent

\* const available = this.options.maxConcurrent - running.size
available == maxConcurrent - Len(running)

ToStartLast ==
    LET ready == getReadyTasks(batch, completed, Range(running))
        first == IF Len(ready) > available THEN Len(ready) - available + 1 ELSE 1
    IN SubSeq(ready, first, Len(ready))

\* const toStart = ready.slice(0, available)
toStart == Slice0(getReadyTasks(batch, completed, Range(running)), available)

\* if (this.paused) await this.waitForResume()
LoopPause ==
    /\ pc = "top"
    /\ LoopCond
    /\ paused
    /\ pc' = "waitResume"
    /\ UNCHANGED <<batch, maxConcurrent, status, batchStatus, completed, failed,
                   running, runners, aborted, pendingEscalations, paused, retried,
                   cancelHist, cancelAllCalled, restarted, escCancelled, opCalls,
                   cost, totalCost, call>>

ResumedAlways == TRUE

\* the test of waitForResume's check(): the promise resolves, and the loop
\* goes on to getReadyTasks, only when the paused flag is clear
Resumed == ~paused

\* One admission: getReadyTasks, slice, and for each admitted task
\* running.add(task.id) and startTask(task), which creates the runner, sets
\* the stored status to running and calls runner.run().  Reached from the top
\* of the loop when not paused, or when waitForResume sees the flag cleared.
LoopAdmit ==
    /\ \/ pc = "top" /\ LoopCond /\ ~paused
       \/ pc = "waitResume" /\ Resumed
    /\ LET ts  == toStart
           ids == {ts[i].id : i \in 1..Len(ts)}
           run == running \o [i \in 1..Len(ts) |-> ts[i].id]
       IN /\ running' = run
          /\ status' = [t \in Ids |-> IF t \in ids THEN "running" ELSE status[t]]
          /\ runners' = [t \in Ids |-> IF t \in ids THEN "sdk" ELSE runners[t]]
          /\ aborted' = [t \in Ids |-> IF t \in ids THEN FALSE ELSE aborted[t]]
          /\ restarted' = restarted \cup (ids \cap failed)
          /\ escCancelled' = escCancelled \ ids
          /\ pc' = IF Len(run) > 0 THEN "wait" ELSE "top"
    /\ UNCHANGED <<batch, maxConcurrent, batchStatus, completed, failed,
                   pendingEscalations, paused, retried, cancelHist,
                   cancelAllCalled, opCalls, cost, totalCost, call>>

\* waitForAnyComplete's test of one member of the running set
Finished(t) == status[t] \in Terminal /\ runners[t] = "none"

\* waitForAnyComplete resolves with the first finished member of the running
\* set; the loop then moves it to completed or failed and recomputes
\* this.state.totalCost.
LoopObserve ==
    /\ pc = "wait"
    /\ \E i \in 1..Len(running) :
          /\ Finished(running[i])
          /\ \A j \in 1..(i - 1) : ~Finished(running[j])
          /\ LET t == running[i] IN
                /\ running' = SubSeq(running, 1, i - 1) \o SubSeq(running, i + 1, Len(running))
                /\ IF status[t] = "completed"
                   THEN completed' = completed \cup {t} /\ failed' = failed
                   ELSE failed' = failed \cup {t} /\ completed' = completed
    /\ totalCost' = SumCost(cost, Ids)
    /\ pc' = "top"
    /\ UNCHANGED <<batch, maxConcurrent, status, batchStatus, runners, aborted,
                   pendingEscalations, paused, retried, cancelHist,
                   cancelAllCalled, restarted, escCancelled, opCalls, cost, call>>

\* the status processLoop derives from getBatchStats after the loop
finalStatus(st) ==
    IF StatsFailed(st) > 0 THEN "failed"
    ELSE IF StatsCancelled(st) > 0 THEN "cancelled"
    ELSE "completed"

\* The loop condition is false: the batch status is derived, start() does its
\* final save, emits batch_completed and returns.
LoopExit ==
    /\ pc = "top"
    /\ ~LoopCond
    /\ batchStatus' = finalStatus(status)
    /\ pc' = "done"
    /\ UNCHANGED <<batch, maxConcurrent, status, completed, failed, running,
                   runners, aborted, pendingEscalations, paused, retried,
                   cancelHist, cancelAllCalled, restarted, escCancelled, opCalls,
                   cost, totalCost, call>>

----------------------------------------------------------------------------
(* TaskRunner: one executor per started task *)

\* the .then / .catch of runner.run() in startTask: the result is merged into
\* the stored task state and the runner, with its abort controller, is
\* removed from this.runners
Finish(t, st, c) ==
    /\ status' = updateTaskState(status, t, st)
    /\ cost' = [cost EXCEPT ![t] = c]
    /\ runners' = [runners EXCEPT ![t] = "none"]
    /\ aborted' = [aborted EXCEPT ![t] = FALSE]
    /\ UNCHANGED <<batch, maxConcurrent, batchStatus, pc, completed, failed,
                   running, pendingEscalations, paused, retried,
                   cancelHist, cancelAllCalled, restarted, escCancelled, opCalls,
                   totalCost, call>>

\* the cost of a query that ended: message.total_cost_usd of its result
RunCost == 1

\* the cost run() returns from its catch block: the local cost is assigned
\* only after executeQuery returned, so it still holds its initial value
CaughtCost == 0

\* executeWithSDK returns; run() returns status completed.  run() does not
\* read the abort signal on this path, so an abort() that arrives while the
\* query is ending or while run() writes its log and result changes nothing.
SdkSucceeds(t) ==
    /\ runners[t] = "sdk"
    /\ Finish(t, "completed", RunCost)

\* executeWithSDK throws (SDK missing, SDK error, abort): executeQuery falls
\* back to executeWithSubprocess
SdkThrows(t) ==
    /\ runners[t] = "sdk"
    /\ runners' = [runners EXCEPT ![t] = "sub"]
    /\ UNCHANGED <<batch, maxConcurrent, status, batchStatus, pc, completed,
                   failed, running, aborted, pendingEscalations, paused, retried,
                   cancelHist, cancelAllCalled, restarted, escCancelled, opCalls,
                   cost, totalCost, call>>

\* the subprocess closes with code 0; run() returns status completed
SubSucceeds(t) ==
    /\ runners[t] = "sub"
    /\ Finish(t, "completed", RunCost)

\* the outcome of run()'s catch block
CaughtStatus(t) == IF aborted[t] THEN "cancelled" ELSE "failed"

\* the subprocess fails or was killed; run()'s catch block returns cancelled
\* when the abort signal is set and failed otherwise
SubFails(t) ==
    /\ runners[t] \in {"sub", "subKilled"}
    /\ Finish(t, CaughtStatus(t), CaughtCost)

\* run() itself rejects (an await outside its try block, or inside its
\* catch block, throws): startTask's .catch records status failed
RunRejects(t) ==
    /\ runners[t] \in {"sdk", "sub", "subKilled"}
    /\ Finish(t, "failed", cost[t])

\* a stream_event message: executeWithSDK emits 'progress' with its local
\* cost, which is 0 until the result message, and startTask's listener
\* stores that cost in the task state
progress(t) ==
    /\ runners[t] = "sdk"
    /\ cost' = [cost EXCEPT ![t] = 0]
    /\ UNCHANGED <<batch, maxConcurrent, status, batchStatus, pc, completed,
                   failed, running, runners, aborted, pendingEscalations,
                   paused, retried, cancelHist, cancelAllCalled, restarted,
                   escCancelled, opCalls, totalCost, call>>

raiseWithoutWaiting(t) ==
    /\ runners[t] = "sdk"
    /\ t \notin pendingEscalations
    /\ pendingEscalations' = pendingEscalations \cup {t}
    /\ UNCHANGED <<batch, maxConcurrent, status, batchStatus, pc, completed,
                   failed, running, runners, aborted, paused, retried, cancelHist,
                   cancelAllCalled, restarted, escCancelled, opCalls, cost,
                   totalCost, call>>

\* parseEscalation finds a request: handleEscalation registers the resolver
\* and emits 'escalation'; the manager's listener records the request
handleEscalation(t) ==
    /\ runners[t] = "sdk"
    /\ runners' = [runners EXCEPT ![t] = "waitEsc"]
    /\ pendingEscalations' = pendingEscalations \cup {t}
    /\ UNCHANGED <<batch, maxConcurrent, status, batchStatus, pc, completed,
                   failed, running, aborted, paused, retried, cancelHist,
                   cancelAllCalled, restarted, escCancelled, opCalls, cost, totalCost, call>>

----------------------------------------------------------------------------
(* Operator calls on the QueueManager *)

\* the operator makes one more call
OperatorCall ==
    /\ opCalls < MaxOperatorCalls
    /\ opCalls' = opCalls + 1

\* pause()
pause ==
    /\ OperatorCall
    /\ paused' = TRUE
    /\ UNCHANGED <<batch, maxConcurrent, status, batchStatus, pc, completed,
                   failed, running, runners, aborted, pendingEscalations, retried,
                   cancelHist, cancelAllCalled, restarted, escCancelled, cost, totalCost, call>>

\* resume()
resume ==
    /\ OperatorCall
    /\ paused' = FALSE
    /\ UNCHANGED <<batch, maxConcurrent, status, batchStatus, pc, completed,
                   failed, running, runners, aborted, pendingEscalations, retried,
                   cancelHist, cancelAllCalled, restarted, escCancelled, cost, totalCost, call>>

\* the executors blocked in handleEscalation
WaitingForResponse == {t \in Ids : runners[t] = "waitEsc"}

\* TaskRunner.abort() on the runner of t: the signal is set; a subprocess
\* spawned before the abort is killed by its abort listener
AbortPhase(ph) == IF ph = "sub" THEN "subKilled" ELSE ph

\* cancelTask(taskId): abort the runner of the task if there is one
cancelTask(t) ==
    /\ OperatorCall
    /\ IF runners[t] # "none"
       THEN /\ aborted' = [aborted EXCEPT ![t] = TRUE]
            /\ runners' = [runners EXCEPT ![t] = AbortPhase(runners[t])]
            /\ cancelHist' = cancelHist \cup {t}
            /\ escCancelled' = escCancelled \cup ({t} \cap WaitingForResponse)
       ELSE UNCHANGED <<aborted, runners, cancelHist, escCancelled>>
    /\ UNCHANGED <<batch, maxConcurrent, status, batchStatus, pc, completed,
                   failed, running, pendingEscalations, paused, retried,
                   cancelAllCalled, restarted, cost, totalCost, call>>

\* start() has been called and has not returned
InRun == pc \in {"top", "waitResume", "wait"}

\* cancelAll(): abort every runner and set the batch status to cancelled
cancelAll ==
    /\ OperatorCall
    /\ aborted' = [t \in Ids |-> IF runners[t] # "none" THEN TRUE ELSE aborted[t]]
    /\ runners' = [t \in Ids |-> AbortPhase(runners[t])]
    /\ batchStatus' = "cancelled"
    /\ cancelAllCalled' = (cancelAllCalled \/ (InRun /\ \E t \in Ids : runners[t] # "none"))
    /\ escCancelled' = escCancelled \cup WaitingForResponse
    /\ UNCHANGED <<batch, maxConcurrent, status, pc, completed, failed, running,
                   pendingEscalations, paused, retried, cancelHist, restarted,
                   cost, totalCost, call>>

\* retryTask(taskId) on a task whose stored status is failed
retryTask(t) ==
    /\ OperatorCall
    /\ status[t] = "failed"
    /\ status' = updateTaskState(status, t, "pending")
    /\ retried' = retried \cup {t}
    /\ UNCHANGED <<batch, maxConcurrent, batchStatus, pc, completed, failed,
                   running, runners, aborted, pendingEscalations, paused,
                   cancelHist, cancelAllCalled, restarted, escCancelled, cost, totalCost, call>>

\* resolveEscalation(taskId, response): the runner of the task, if any, hands
\* the response to the executor waiting in handleEscalation; the request is
\* removed from pendingEscalations
resolveEscalation(t) ==
    /\ OperatorCall
    /\ runners' = [runners EXCEPT ![t] = IF @ = "waitEsc" THEN "sdk" ELSE @]
    /\ pendingEscalations' = pendingEscalations \ {t}
    /\ UNCHANGED <<batch, maxConcurrent, status, batchStatus, pc, completed,
                   failed, running, aborted, paused, retried, cancelHist,
                   cancelAllCalled, restarted, escCancelled, cost, totalCost, call>>

----------------------------------------------------------------------------

Loop == start \/ LoopPause \/ LoopAdmit \/ LoopObserve \/ LoopExit

Runner(t) ==
    \/ SdkSucceeds(t) \/ SdkThrows(t) \/ SubSucceeds(t) \/ SubFails(t)
    \/ RunRejects(t) \/ handleEscalation(t) \/ progress(t)

Next ==
    \/ start
    \/ LoopPause
    \/ LoopAdmit
    \/ LoopObserve
    \/ LoopExit
    \/ \E t \in Ids : SdkSucceeds(t)
    \/ \E t \in Ids : SdkThrows(t)
    \/ \E t \in Ids : SubSucceeds(t)
    \/ \E t \in Ids : SubFails(t)
    \/ \E t \in Ids : RunRejects(t)
    \/ \E t \in Ids : handleEscalation(t)
    \/ \E t \in Ids : progress(t)
    \/ \E t \in Ids : cancelTask(t)
    \/ \E t \in Ids : retryTask(t)
    \/ \E t \in Ids : resolveEscalation(t)
    \/ pause
    \/ resume
    \/ cancelAll

Spec == Init /\ [][Next]_vars

TypeOK ==
    /\ status \in [Ids -> TaskStatuses]
    /\ pc \in {"idle", "top", "waitResume", "wait", "done"}
    /\ completed \subseteq Ids /\ failed \subseteq Ids
    /\ Range(running) \subseteq Ids

----------------------------------------------------------------------------
(* Calls of the state functions on whole task records *)

RetryAnyStatus(tasks, state, taskId) ==
    IF taskId \notin {tasks[i].id : i \in 1..Len(tasks)}
    THEN [state |-> state, error |-> "Task not found"]
    ELSE [state |-> updateTaskFields(state, taskId,
                        [status |-> "pending", error |-> Undefined,
                         completedAt |-> Undefined]),
          error |-> "none"]

\* QueueManager.retryTask on the whole state: the state it leaves and the
\* error it throws ("none" when it returns)
retryTaskResult(tasks, state, taskId) ==
    IF taskId \notin {tasks[i].id : i \in 1..Len(tasks)}
    THEN [state |-> state, error |-> "Task not found"]
    ELSE IF \/ taskId \notin DOMAIN state.tasks
            \/ state.tasks[taskId].status # "failed"
    THEN [state |-> state, error |-> "Task is not failed"]
    ELSE [state |-> updateTaskFields(state, taskId,
                        [status |-> "pending", error |-> Undefined,
                         completedAt |-> Undefined]),
          error |-> "none"]

\* the loop of resumeBatch over the entries of savedState.tasks whose
\* status is running
RECURSIVE ResetRunning(_, _)
ResetRunning(state, ids) ==
    IF ids = {} THEN state
    ELSE LET t == CHOOSE x \in ids : TRUE
         IN ResetRunning(updateTaskFields(state, t, [status |-> "pending"]),
                         ids \ {t})

ResumeFromScratch(savedState) ==
    [savedState EXCEPT !.tasks =
        [t \in DOMAIN @ |-> IF @[t].status = "running" THEN NewTaskState ELSE @[t]]]

\* resumeBatch: the state of the manager it returns
resumeBatch(savedState) ==
    ResetRunning(savedState,
                 {t \in DOMAIN savedState.tasks :
                     savedState.tasks[t].status = "running"})

\* Date.prototype.toISOString: the instant as text, to the millisecond
toISOString(d) == [iso |-> d]

\* new Date(text) for the text of toISOString
NewDate(text) == text.iso

\* optional.toISOString() with optional chaining
OptionalISO(v) == IF v = Undefined THEN Undefined ELSE Some(toISOString(v[1]))

\* text ? new Date(text) : undefined
OptionalDate(v) == IF v = Undefined THEN Undefined ELSE Some(NewDate(v[1]))

\* the optional properties of a persisted task and of a persisted batch
OptionalTaskKeys == {"sessionId", "startedAt", "completedAt", "result", "error"}
OptionalBatchKeys == {"completedAt"}

\* JSON.stringify leaves out the properties whose value is undefined
WithoutUndefined(obj, optionalKeys) ==
    [k \in {x \in DOMAIN obj : x \in optionalKeys => obj[x] # Undefined} |-> obj[k]]

\* reading a property of a parsed object: undefined when it is absent
Prop(obj, k) == IF k \in DOMAIN obj THEN obj[k] ELSE Undefined

SerializeWithoutSession(taskState) ==
    [status |-> taskState.status, sessionId |-> Undefined,
     startedAt |-> OptionalISO(taskState.startedAt),
     completedAt |-> OptionalISO(taskState.completedAt),
     cost |-> taskState.cost, result |-> taskState.result,
     error |-> taskState.error]

\* serializeBatchState: the entry it builds for one task
serializeTaskState(taskState) ==
    [status |-> taskState.status, sessionId |-> taskState.sessionId,
     startedAt |-> OptionalISO(taskState.startedAt),
     completedAt |-> OptionalISO(taskState.completedAt),
     cost |-> taskState.cost, result |-> taskState.result,
     error |-> taskState.error]

serializeBatchState(state) ==
    [batchId |-> state.batchId, yamlPath |-> state.yamlPath,
     startedAt |-> toISOString(state.startedAt),
     completedAt |-> OptionalISO(state.completedAt),
     status |-> state.status, totalCost |-> state.totalCost,
     tasks |-> [id \in DOMAIN state.tasks |-> serializeTaskState(state.tasks[id])]]

\* saveBatchState: the content of the state file, JSON.stringify(serialized)
saveBatchState(state) ==
    LET serialized == serializeBatchState(state) IN
       WithoutUndefined(
           [serialized EXCEPT !.tasks =
               [id \in DOMAIN @ |-> WithoutUndefined(@[id], OptionalTaskKeys)]],
           OptionalBatchKeys)

\* deserializeBatchState: the TaskState it builds for one persisted entry;
\* currentTool and progress are not properties of the object it builds
deserializeTaskState(taskState) ==
    [status |-> taskState.status, sessionId |-> Prop(taskState, "sessionId"),
     startedAt |-> OptionalDate(Prop(taskState, "startedAt")),
     completedAt |-> OptionalDate(Prop(taskState, "completedAt")),
     cost |-> taskState.cost, result |-> Prop(taskState, "result"),
     error |-> Prop(taskState, "error"),
     currentTool |-> Undefined, progress |-> Undefined]

deserializeBatchState(persisted) ==
    [batchId |-> persisted.batchId, yamlPath |-> persisted.yamlPath,
     startedAt |-> NewDate(persisted.startedAt),
     completedAt |-> OptionalDate(Prop(persisted, "completedAt")),
     status |-> persisted.status, totalCost |-> persisted.totalCost,
     tasks |-> [id \in DOMAIN persisted.tasks |->
                   deserializeTaskState(persisted.tasks[id])]]

\* loadBatchState: JSON.parse of the file content, then deserializeBatchState
loadBatchState(content) == deserializeBatchState(content)

\* resumeCommand: the state of the manager built from the state file
Reload(state) == resumeBatch(loadBatchState(saveBatchState(state)))

\* an id no task of the batch has
UnknownId == "Z"

\* the batch whose state the store functions are applied to
StoreBatch == ChainBatch

\* a manager holding a batch state, before any call: one task of the batch
\* takes every TaskState, or the batch fields take every value
StoreInit ==
    /\ Constructed(StoreBatch, MinConcurrent)
    /\ \/ \E x \in Ids, r \in TaskStates, o \in StartedTaskStates :
             call = NoCallOn(BatchState(RunningHeader,
                                        [t \in Ids |-> IF t = x THEN r ELSE o]))
       \/ \E h \in BatchHeaders, ts \in [Ids -> StartedTaskStates] :
             call = NoCallOn(BatchState(h, ts))

\* one call of retryTask
CallRetryTask ==
    /\ call.op = "none"
    /\ \E taskId \in Ids \cup {UnknownId} :
          LET r == retryTaskResult(batch, call.before, taskId) IN
             call' = [call EXCEPT !.op = "retryTask", !.arg = taskId,
                                  !.after = r.state, !.error = r.error]
    /\ UNCHANGED managerVars

\* one call of resumeBatch
CallResumeBatch ==
    /\ call.op = "none"
    /\ call' = [call EXCEPT !.op = "resumeBatch",
                            !.after = resumeBatch(call.before)]
    /\ UNCHANGED managerVars

\* the state is saved, and a later session loads it and resumes
CallReload ==
    /\ call.op = "none"
    /\ call' = [call EXCEPT !.op = "reload", !.after = Reload(call.before)]
    /\ UNCHANGED managerVars

\* the updates the manager passes to updateTaskState: from its progress and
\* tool_use listeners, from startTask, from the .catch of runner.run(), from
\* retryTask and from resumeBatch
TaskUpdates ==
    { [progress |-> Some("text"), cost |-> MaxCost],
      [currentTool |-> Some("Bash")],
      [status |-> "running", startedAt |-> Some(MaxTime)],
      [status |-> "failed", error |-> Some("err"), completedAt |-> Some(MaxTime)],
      [status |-> "pending", error |-> Undefined, completedAt |-> Undefined],
      [status |-> "pending"] }

\* one call of updateTaskState
CallUpdateTaskState ==
    /\ call.op = "none"
    /\ \E taskId \in Ids \cup {UnknownId}, update \in TaskUpdates :
          call' = [op |-> "updateTaskState", arg |-> taskId, update |-> update,
                   before |-> call.before,
                   after |-> updateTaskFields(call.before, taskId, update),
                   error |-> "none"]
    /\ UNCHANGED managerVars

StoreNext ==
    \/ CallUpdateTaskState
    \/ CallRetryTask
    \/ CallResumeBatch
    \/ CallReload

StoreSpec == StoreInit /\ [][StoreNext]_vars

----------------------------------------------------------------------------
(* A second session: resumeCommand loads a saved state, resumeBatch builds  *)
(* the manager, start() runs it                                             *)

\* what a run leaves in the state of a task, by the task's status
SavedTaskState(st) ==
    IF st = "pending" THEN NewTaskState
    ELSE IF st = "running"
    THEN [NewTaskState EXCEPT !.status = st, !.startedAt = Some(0)]
    ELSE IF st = "completed"
    THEN [NewTaskState EXCEPT !.status = st, !.sessionId = Some("s1"),
                              !.startedAt = Some(0), !.completedAt = Some(0),
                              !.cost = RunCost, !.result = Some("out")]
    ELSE IF st = "failed"
    THEN [NewTaskState EXCEPT !.status = st, !.startedAt = Some(0),
                              !.completedAt = Some(0), !.cost = CaughtCost,
                              !.error = Some("err")]
    ELSE [NewTaskState EXCEPT !.status = st, !.startedAt = Some(0),
                              !.completedAt = Some(0), !.cost = CaughtCost]

\* the statuses a run of tasks can have recorded when its state was saved:
\* a task that was started had all its dependencies completed
RecordedStatuses(tasks) ==
    {sm \in [{tasks[i].id : i \in 1..Len(tasks)} -> TaskStatuses] :
        \A i \in 1..Len(tasks) :
            sm[tasks[i].id] # "pending" =>
                \A j \in 1..Len(tasks[i].dependsOn) :
                    sm[tasks[i].dependsOn[j]] = "completed"}

\* the state file of such a run: written by the auto-save while the batch
\* was running, or by the interrupt handler after cancelAll
SavedState(sm, batchSt) ==
    LET tasks == [t \in DOMAIN sm |-> SavedTaskState(sm[t])]
        total == SumCost([t \in DOMAIN sm |-> tasks[t].cost], DOMAIN sm)
    IN BatchState([RunningHeader EXCEPT !.status = batchSt, !.totalCost = total],
                  tasks)

\* the batches whose saved runs are resumed
ResumedBatches == {ChainBatch}

\* resumeBatch(batch, savedState, options) returned the manager
ResumeInit ==
    /\ \E tasks \in ResumedBatches, limit \in MinConcurrent..MaxConcurrentLimit :
         \E sm \in RecordedStatuses(tasks), batchSt \in {"running", "cancelled"} :
            LET savedState == SavedState(sm, batchSt) IN
               /\ Installed(tasks, limit, resumeBatch(savedState))
               /\ call = [op |-> "resumeBatch", arg |-> "", before |-> savedState,
                          after |-> resumeBatch(savedState), error |-> "none"]

ResumeSpec == ResumeInit /\ [][Next]_vars

----------------------------------------------------------------------------
(* The dependency graph resolver: topologicalSort (Kahn's algorithm)        *)

\* "Build graph": the inner loop over task.dependsOn
RECURSIVE AddDependencies(_, _, _, _)
AddDependencies(graph, inDegree, taskId, deps) ==
    IF deps = <<>> THEN [graph |-> graph, inDegree |-> inDegree]
    ELSE LET dep == Head(deps) IN
         AddDependencies(
             IF dep \in DOMAIN graph
             THEN [graph EXCEPT ![dep] = Append(@, taskId)] ELSE graph,
             [inDegree EXCEPT ![taskId] = @ + 1],
             taskId, Tail(deps))

\* "Build graph": the outer loop over tasks
RECURSIVE BuildGraph(_, _, _)
BuildGraph(graph, inDegree, tasks) ==
    IF tasks = <<>> THEN [graph |-> graph, inDegree |-> inDegree]
    ELSE LET r == AddDependencies(graph, inDegree, Head(tasks).id,
                                  Head(tasks).dependsOn)
         IN BuildGraph(r.graph, r.inDegree, Tail(tasks))

\* taskMap: for each id the last task declared with it
TaskMap(tasks) ==
    [id \in {tasks[i].id : i \in 1..Len(tasks)} |->
        LET last == CHOOSE i \in 1..Len(tasks) :
                        /\ tasks[i].id = id
                        /\ \A j \in (i + 1)..Len(tasks) : tasks[j].id # id
        IN tasks[last]]

InitialQueueAll(tasks, inDegree) == tasks

\* const queue = tasks.filter(t => inDegree.get(t.id) === 0)
InitialQueue(tasks, inDegree) ==
    LET NoDependency(t) == inDegree[t.id] = 0 IN SelectSeq(tasks, NoDependency)

\* the loop over graph.get(task.id) for the task taken from the queue
RECURSIVE Relax(_, _, _, _)
Relax(nexts, inDegree, queue, taskMap) ==
    IF nexts = <<>> THEN [inDegree |-> inDegree, queue |-> queue]
    ELSE LET next == Head(nexts)
             newDegree == inDegree[next] - 1
         IN Relax(Tail(nexts), [inDegree EXCEPT ![next] = newDegree],
                  IF newDegree = 0 THEN Append(queue, taskMap[next]) ELSE queue,
                  taskMap)

\* while (queue.length > 0): shift, push to result, relax
RECURSIVE Kahn(_, _, _, _, _)
Kahn(queue, result, inDegree, graph, taskMap) ==
    IF queue = <<>> THEN result
    ELSE LET task == Head(queue)
             r == Relax(graph[task.id], inDegree, Tail(queue), taskMap)
         IN Kahn(r.queue, Append(result, task), r.inDegree, graph, taskMap)

CircularError == "Circular dependency detected in task graph"

Unchecked(result, tasks) == [value |-> result, error |-> "none"]

\* the final test: throw when not every task was placed, else return result
Checked(result, tasks) ==
    IF Len(result) # Len(tasks)
    THEN [value |-> <<>>, error |-> CircularError]
    ELSE [value |-> result, error |-> "none"]

\* topologicalSort(tasks): the list it returns, or the error it throws
topologicalSort(tasks) ==
    LET ids == {tasks[i].id : i \in 1..Len(tasks)}
        built == BuildGraph([id \in ids |-> <<>>], [id \in ids |-> 0], tasks)
        queue == InitialQueue(tasks, built.inDegree)
    IN Checked(Kahn(queue, <<>>, built.inDegree, built.graph, TaskMap(tasks)),
               tasks)

\* Math.max(...values)
MathMax(values) == CHOOSE m \in values : \A v \in values : v <= m

DepLevelMin(deps, taskLevel) ==
    LET levelsOfDeps == {IF deps[j] \in DOMAIN taskLevel THEN taskLevel[deps[j]] ELSE 0 :
                            j \in 1..Len(deps)}
    IN (CHOOSE m \in levelsOfDeps : \A v \in levelsOfDeps : m <= v) + 1

\* Math.max(...deps.map(d => taskLevel.get(d) ?? 0)) + 1
DepLevel(deps, taskLevel) ==
    MathMax({IF deps[j] \in DOMAIN taskLevel THEN taskLevel[deps[j]] ELSE 0 :
                j \in 1..Len(deps)}) + 1

\* for (const task of sorted): taskLevel.set(task.id, level)
RECURSIVE AssignLevels(_, _)
AssignLevels(sorted, taskLevel) ==
    IF Len(sorted) = 0
    THEN taskLevel
    ELSE LET task == Head(sorted)
             level == IF Len(task.dependsOn) = 0
                      THEN 0
                      ELSE DepLevel(task.dependsOn, taskLevel)
         IN AssignLevels(Tail(sorted),
                         [id \in DOMAIN taskLevel \cup {task.id} |->
                             IF id = task.id THEN level ELSE taskLevel[id]])

\* levels[i] = [] for i in 0..maxLevel, then levels[level].push(task) for
\* each task of sorted; level i of the code is element i + 1 here
GroupByLevel(sorted, taskLevel) ==
    LET maxLevel == MathMax({taskLevel[id] : id \in DOMAIN taskLevel} \cup {0})
    IN [i \in 1..(maxLevel + 1) |->
           SelectSeq(sorted, LAMBDA task : taskLevel[task.id] = i - 1)]

\* analyzeDAG(tasks): the analysis it returns, or the error it throws
analyzeDAG(tasks) ==
    LET r == topologicalSort(tasks)
        sorted == r.value
        taskLevel == AssignLevels(sorted, <<>>)
        dependedOn == UNION {Range(tasks[i].dependsOn) : i \in 1..Len(tasks)}
    IN IF r.error # "none"
       THEN [value |-> <<>>, error |-> r.error]
       ELSE [value |-> [sorted |-> sorted,
                        levels |-> GroupByLevel(sorted, taskLevel),
                        entryPoints |->
                            SelectSeq(tasks, LAMBDA task : Len(task.dependsOn) = 0),
                        exitPoints |->
                            SelectSeq(tasks, LAMBDA task : task.id \notin dependedOn)],
             error |-> "none"]

\* the largest task list the resolver is applied to
MaxTasks == 3

\* the ids of those tasks, in declaration order
DagIds == <<"X", "Y", "Z", "V", "W">>

\* the members of ids as dependsOn lists them
DependsOnList(ids) ==
    LET Listed(id) == id \in ids IN SelectSeq(SubSeq(DagIds, 1, MaxTasks), Listed)

\* the first n tasks of a list in which every task depends on any of the
\* MaxTasks ids, itself and ids that are not declared included, or one of
\* the batches the manager is constructed with
DagInit ==
    /\ Constructed(StoreBatch, MinConcurrent)
    /\ \/ \E n \in 0..MaxTasks :
            \E deps \in [1..n -> SUBSET {DagIds[i] : i \in 1..MaxTasks}] :
               call = [op |-> "none", arg |-> "",
                       before |-> [i \in 1..n |->
                                      Task(DagIds[i], DependsOnList(deps[i]))],
                       after |-> <<>>, error |-> "none"]
       \/ \E tasks \in Batches :
            call = [op |-> "none", arg |-> "", before |-> tasks,
                    after |-> <<>>, error |-> "none"]

\* one call of topologicalSort
CallTopologicalSort ==
    /\ call.op = "none"
    /\ LET r == topologicalSort(call.before) IN
          call' = [call EXCEPT !.op = "topologicalSort", !.after = r.value,
                               !.error = r.error]
    /\ UNCHANGED managerVars

\* the longest task list getReadyTasks is called with
MaxReadyTasks == 2

\* one call of getReadyTasks with any completed set and any running set
CallGetReadyTasks ==
    /\ call.op = "none"
    /\ Len(call.before) <= MaxReadyTasks
    /\ \E completedSet, runningSet \in SUBSET {DagIds[i] : i \in 1..MaxTasks} :
          call' = [call EXCEPT !.op = "getReadyTasks",
                               !.arg = [completed |-> completedSet,
                                        running |-> runningSet],
                               !.after = getReadyTasks(call.before, completedSet,
                                                       runningSet)]
    /\ UNCHANGED managerVars

\* one call of analyzeDAG
CallAnalyzeDAG ==
    /\ call.op = "none"
    /\ LET r == analyzeDAG(call.before) IN
          call' = [call EXCEPT !.op = "analyzeDAG", !.after = r.value,
                               !.error = r.error]
    /\ UNCHANGED managerVars

\* tasks.map(...): a new list in which the task fromId has toId appended to
\* a copy of its dependsOn; the other tasks are the given ones
modifiedTasks(tasks, fromId, toId) ==
    [i \in 1..Len(tasks) |->
        IF tasks[i].id = fromId
        THEN [tasks[i] EXCEPT !.dependsOn = Append(@, toId)]
        ELSE tasks[i]]

\* wouldCreateCycle(tasks, fromId, toId): true when topologicalSort throws
\* on the modified list
wouldCreateCycle(tasks, fromId, toId) ==
    topologicalSort(modifiedTasks(tasks, fromId, toId)).error # "none"

\* one call of wouldCreateCycle; after holds the value it returns and the
\* task list as the call leaves it
CallWouldCreateCycle ==
    /\ call.op = "none"
    /\ \E fromId, toId \in {DagIds[i] : i \in 1..MaxTasks} :
          call' = [call EXCEPT !.op = "wouldCreateCycle",
                               !.arg = [fromId |-> fromId, toId |-> toId],
                               !.after = [value |-> wouldCreateCycle(call.before,
                                                                     fromId, toId),
                                          tasks |-> call.before]]
    /\ UNCHANGED managerVars

\* reverseDeps.get(dep) ?? []: task.id pushed once for every occurrence of
\* dep in task.dependsOn, in the order of the tasks
RECURSIVE ReverseDeps(_, _)
ReverseDeps(tasks, dep) ==
    IF tasks = <<>> THEN <<>>
    ELSE LET IsDep(d) == d = dep
             found == SelectSeq(Head(tasks).dependsOn, IsDep)
         IN [k \in 1..Len(found) |-> Head(tasks).id] \o ReverseDeps(Tail(tasks), dep)

\* for (const dependent of reverseDeps.get(current) ?? []): a dependent not
\* seen before is added to the set and pushed on the queue
RECURSIVE VisitDependents(_, _, _)
VisitDependents(list, queue, dependents) ==
    IF list = <<>> THEN [queue |-> queue, dependents |-> dependents]
    ELSE IF Head(list) \in dependents
    THEN VisitDependents(Tail(list), queue, dependents)
    ELSE VisitDependents(Tail(list), Append(queue, Head(list)),
                         dependents \cup {Head(list)})

\* the breadth-first loop of getDependents over its queue
RECURSIVE DependentsBFS(_, _, _)
DependentsBFS(tasks, queue, dependents) ==
    IF queue = <<>> THEN dependents
    ELSE LET r == VisitDependents(ReverseDeps(tasks, Head(queue)), Tail(queue),
                                  dependents)
         IN DependentsBFS(tasks, r.queue, r.dependents)

getDirectDependents(tasks, taskId) ==
    LET dependents == Range(ReverseDeps(tasks, taskId))
    IN SelectSeq(tasks, LAMBDA task : task.id \in dependents)

\* getDependents(tasks, taskId)
getDependents(tasks, taskId) ==
    LET dependents == DependentsBFS(tasks, <<taskId>>, {})
    IN SelectSeq(tasks, LAMBDA task : task.id \in dependents)

\* one call of getDependents
CallGetDependents ==
    /\ call.op = "none"
    /\ \E taskId \in {DagIds[i] : i \in 1..MaxTasks} :
          call' = [call EXCEPT !.op = "getDependents", !.arg = taskId,
                               !.after = getDependents(call.before, taskId)]
    /\ UNCHANGED managerVars

\* one call of getDependencies
CallGetDependencies ==
    /\ call.op = "none"
    /\ \E taskId \in {DagIds[i] : i \in 1..MaxTasks} :
          call' = [call EXCEPT !.op = "getDependencies", !.arg = taskId,
                               !.after = getDependencies(call.before, taskId)]
    /\ UNCHANGED managerVars

DagNext ==
    \/ CallTopologicalSort
    \/ CallWouldCreateCycle
    \/ CallGetDependents
    \/ CallGetDependencies
    \/ CallGetReadyTasks
    \/ CallAnalyzeDAG

DagSpec == DagInit /\ [][DagNext]_vars

----------------------------------------------------------------------------
(* Escalations with their responses: a run of independent tasks whose      *)
(* executors raise escalations and end with success, while the operator     *)
(* answers escalations and cancels tasks.  call holds the last operator     *)
(* call or escalation, the runners, the pending requests and the responses  *)
(* every task's executor has received before and after it, and the error    *)
(* the call reported.                                                       *)

\* EscalationResponse.action
EscalationActions == {"continue", "skip", "agent_decide"}

\* the runners, the pending requests and the responses received so far
Exchange(phases, pending, received) ==
    [runners |-> phases, pendingEscalations |-> pending, received |-> received]

EscInit ==
    /\ \E limit \in MinConcurrent..MaxConcurrentLimit :
          Constructed(IndependentBatch, limit)
    /\ LET none == Exchange(runners, pendingEscalations, [t \in Ids |-> <<>>])
       IN call = [op |-> "none", arg |-> [taskId |-> "", response |-> ""],
                  before |-> none, after |-> none, error |-> "none"]

\* what the manager's variables other than runners, pendingEscalations,
\* aborted and opCalls keep in an escalation step
escalationFrame ==
    <<batch, maxConcurrent, status, batchStatus, pc, completed, failed,
      running, paused, retried, cancelHist, cancelAllCalled, restarted,
      escCancelled, cost, totalCost>>

\* the executor calls handleEscalation(request) and awaits the promise
RaiseEscalation(t) ==
    /\ runners[t] = "sdk"
    /\ runners' = [runners EXCEPT ![t] = "waitEsc"]
    /\ pendingEscalations' = pendingEscalations \cup {t}
    /\ call' = [op |-> "handleEscalation",
                arg |-> [taskId |-> t, response |-> ""],
                before |-> Exchange(runners, pendingEscalations, call.after.received),
                after |-> Exchange(runners', pendingEscalations', call.after.received),
                error |-> "none"]
    /\ UNCHANGED <<escalationFrame, aborted, opCalls>>

UnblockedAll(phases, taskId) ==
    [t \in DOMAIN phases |-> IF phases[t] = "waitEsc" THEN "sdk" ELSE phases[t]]

\* runner.resolveEscalation(response): the executor of taskId resumes when
\* its escalationResolver is set
Unblocked(phases, taskId) ==
    [t \in DOMAIN phases |->
        IF t = taskId /\ phases[t] = "waitEsc" THEN "sdk" ELSE phases[t]]

DeliveredTwice(received, phases, taskId, response) ==
    [t \in DOMAIN received |->
        IF t = taskId
        THEN received[t] \o <<response, response>>
        ELSE received[t]]

\* this.escalationResolver(response): the awaited promise resolves with it
Delivered(received, phases, taskId, response) ==
    [t \in DOMAIN received |->
        IF t = taskId /\ phases[t] = "waitEsc"
        THEN Append(received[t], response)
        ELSE received[t]]

\* QueueManager.resolveEscalation(taskId, response); it returns nothing and
\* throws nothing
AnswerEscalation(taskId, response) ==
    /\ OperatorCall
    /\ runners' = Unblocked(runners, taskId)
    /\ pendingEscalations' = pendingEscalations \ {taskId}
    /\ call' = [op |-> "resolveEscalation",
                arg |-> [taskId |-> taskId, response |-> response],
                before |-> Exchange(runners, pendingEscalations, call.after.received),
                after |-> Exchange(runners', pendingEscalations',
                                   Delivered(call.after.received, runners, taskId,
                                             response)),
                error |-> "none"]
    /\ UNCHANGED <<escalationFrame, aborted>>

\* QueueManager.cancelTask(taskId) in this run
AbortTask(taskId) ==
    /\ OperatorCall
    /\ IF taskId \in Ids /\ runners[taskId] # "none"
       THEN /\ aborted' = [aborted EXCEPT ![taskId] = TRUE]
            /\ runners' = [runners EXCEPT ![taskId] = AbortPhase(runners[taskId])]
       ELSE UNCHANGED <<aborted, runners>>
    /\ call' = [op |-> "cancelTask",
                arg |-> [taskId |-> taskId, response |-> ""],
                before |-> Exchange(runners, pendingEscalations, call.after.received),
                after |-> Exchange(runners', pendingEscalations, call.after.received),
                error |-> "none"]
    /\ UNCHANGED <<escalationFrame, pendingEscalations>>

EscNext ==
    \/ start
    \/ LoopAdmit
    \/ LoopObserve
    \/ LoopExit
    \/ \E t \in Ids : SdkSucceeds(t)
    \/ \E t \in Ids : RaiseEscalation(t)
    \/ \E t \in Ids \cup {UnknownId}, response \in EscalationActions :
          AnswerEscalation(t, response)
    \/ \E t \in Ids : AbortTask(t)

EscSpec == EscInit /\ [][EscNext]_vars

----------------------------------------------------------------------------
(* The run and resume commands: the task file is loaded, the run command    *)
(* validates it and analyses its graph, and the command starts the manager. *)
(* The manager variables hold the manager the command constructs, or the    *)
(* one resumeBatch returns; call holds the command, the saved state of a    *)
(* resume, how far the command got and the error that ended it.             *)

\* a task file in which Y and Z depend on each other
CyclicBatch == << Task("X", <<>>), Task("Y", <<"Z">>), Task("Z", <<"Y">>) >>

\* a task file in which Y depends on itself
SelfDependentBatch == << Task("X", <<>>), Task("Y", <<"Y">>) >>

\* the task files the commands are given
CommandBatches == {CyclicBatch, SelfDependentBatch, ChainBatch}

\* validateBatch(batch): the errors it returns (budgets are not modelled)
validateBatch(tasks) ==
    {<<"Duplicate task ID", tasks[i].id>> :
        i \in {i \in 1..Len(tasks) : \E j \in 1..(i - 1) : tasks[j].id = tasks[i].id}}
    \cup
    {<<"depends on itself", tasks[i].id>> :
        i \in {i \in 1..Len(tasks) : tasks[i].id \in Range(tasks[i].dependsOn)}}

\* the command line was read and loadTaskFile returned the batch
CommandInit ==
    \E tasks \in CommandBatches, limit \in MinConcurrent..MaxConcurrentLimit :
       \/ /\ Constructed(tasks, limit)
          /\ call = [op |-> "run", arg |-> "", before |-> <<>>,
                     after |-> "loaded", error |-> "none"]
       \/ \E sm \in RecordedStatuses(tasks), batchSt \in {"running", "cancelled"} :
             LET savedState == SavedState(sm, batchSt) IN
                /\ Installed(tasks, limit, resumeBatch(savedState))
                /\ call = [op |-> "resume", arg |-> "", before |-> savedState,
                           after |-> "loaded", error |-> "none"]

\* manager.start() up to the first pass of processLoop
managerStart ==
    /\ batchStatus' = "running"
    /\ pc' = "top"
    /\ call' = [call EXCEPT !.after = "started"]
    /\ UNCHANGED <<batch, maxConcurrent, status, completed, failed, running,
                   runners, aborted, pendingEscalations, paused, retried,
                   cancelHist, cancelAllCalled, restarted, escCancelled, opCalls,
                   cost, totalCost>>

\* the command exits, or an exception ends it, before a manager is started
commandEnds(error) ==
    /\ call' = [call EXCEPT !.after = "exited", !.error = error]
    /\ UNCHANGED managerVars

\* runCommand: validateBatch, analyzeDAG, new QueueManager, manager.start()
runCommand ==
    /\ call.op = "run"
    /\ call.after = "loaded"
    /\ pc = "idle"
    /\ IF validateBatch(batch) # {}
       THEN commandEnds("Validation errors")
       ELSE IF analyzeDAG(batch).error # "none"
       THEN commandEnds(analyzeDAG(batch).error)
       ELSE managerStart

\* resumeCommand: loadBatchState, loadTaskFile, resumeBatch, manager.start()
resumeCommand ==
    /\ call.op = "resume"
    /\ call.after = "loaded"
    /\ pc = "idle"
    /\ managerStart

CommandNext ==
    \/ runCommand
    \/ resumeCommand
    \/ LoopAdmit
    \/ LoopObserve
    \/ LoopExit
    \/ \E t \in Ids : SdkSucceeds(t)
    \/ \E t \in Ids : SdkThrows(t)
    \/ \E t \in Ids : SubSucceeds(t)
    \/ \E t \in Ids : SubFails(t)
    \/ \E t \in Ids : RunRejects(t)

CommandSpec == CommandInit /\ [][CommandNext]_vars

----------------------------------------------------------------------------
(* The state file: a run of the chain batch whose tasks succeed, with the   *)
(* auto-save timer, the final save of start() and the interrupt handler of  *)
(* the run command writing the file.  call holds the file, the writes in    *)
(* flight, whether start() has resolved and what has happened to the        *)
(* process.  writeFile opens the file with truncation and then writes the   *)
(* data in one or more parts, each a step of its own in the thread pool.    *)

\* the number of parts writeFile writes a snapshot in
FileChunks == 2

\* how often the auto-save timer fires in a run
MaxAutoSaves == 1

\* how many writes fail midway in a run
MaxWriteFailures == 1

\* this.state, as far as the manager variables hold it
managerState ==
    BatchState([RunningHeader EXCEPT !.status = batchStatus, !.totalCost = totalCost],
               [t \in Ids |-> [NewTaskState EXCEPT !.status = status[t],
                                                   !.cost = cost[t]]])

\* a part of the file that no write has filled
Hole == [data |-> Undefined, part |-> 0]

\* the file after a write of chunk at position pos
Put(file, pos, chunk) ==
    [i \in 1..(IF Len(file) > pos THEN Len(file) ELSE pos) |->
        IF i = pos THEN chunk ELSE IF i <= Len(file) THEN file[i] ELSE Hole]

FileInit ==
    /\ Constructed(ChainBatch, MinConcurrent)
    /\ call = [exists |-> FALSE, file |-> <<>>, writers |-> {},
               autoSaves |-> 0, failures |-> 0,
               finalSaved |-> FALSE, resolved |-> FALSE, interrupted |-> FALSE,
               exited |-> FALSE]

\* saveBatchState(state): the data is serialized and writeFile called
Save(kind, n, state) ==
    [call EXCEPT !.writers = @ \cup {[kind |-> kind, n |-> n,
                                      data |-> saveBatchState(state),
                                      next |-> 0]}]

\* setInterval(() => this.saveState(), autoSaveInterval) fires
AutoSave ==
    /\ ~call.exited
    /\ InRun
    /\ call.autoSaves < MaxAutoSaves
    /\ call' = [Save("auto", call.autoSaves + 1, managerState)
                    EXCEPT !.autoSaves = @ + 1]
    /\ UNCHANGED managerVars

\* finally { clearInterval(this.saveInterval); await this.saveState() }
FinalSave ==
    /\ ~call.exited
    /\ pc = "done"
    /\ ~call.finalSaved
    /\ call' = [Save("final", 1, managerState) EXCEPT !.finalSaved = TRUE]
    /\ UNCHANGED managerVars

\* process.on('SIGINT'): manager.cancelAll(); await manager.saveState()
Interrupt ==
    /\ ~call.exited
    /\ ~call.interrupted
    /\ pc # "idle"
    /\ aborted' = [t \in Ids |-> IF runners[t] # "none" THEN TRUE ELSE aborted[t]]
    /\ runners' = [t \in Ids |-> AbortPhase(runners[t])]
    /\ batchStatus' = "cancelled"
    /\ cancelAllCalled' = (cancelAllCalled \/ (InRun /\ \E t \in Ids : runners[t] # "none"))
    /\ escCancelled' = escCancelled \cup WaitingForResponse
    /\ call' = [Save("interrupt", 1, [managerState EXCEPT !.status = "cancelled"])
                    EXCEPT !.interrupted = TRUE]
    /\ UNCHANGED <<batch, maxConcurrent, status, pc, completed, failed, running,
                   pendingEscalations, paused, retried, cancelHist, restarted,
                   opCalls, cost, totalCost>>

\* writeFile opens the file with flag 'w': it is created or truncated
OpenFile(w) ==
    /\ ~call.exited
    /\ w.next = 0
    /\ call' = [call EXCEPT !.exists = TRUE, !.file = <<>>,
                            !.writers = (@ \ {w}) \cup {[w EXCEPT !.next = 1]}]
    /\ UNCHANGED managerVars

\* writeFile writes the next part of its data; after the last one it closes
\* the file and its promise resolves, and with the promise of the final
\* save start() resolves
WriteChunk(w) ==
    /\ ~call.exited
    /\ w.next \in 1..FileChunks
    /\ call' = [call EXCEPT
                   !.file = Put(@, w.next, [data |-> Some(w.data), part |-> w.next]),
                   !.writers = IF w.next = FileChunks
                               THEN @ \ {w}
                               ELSE (@ \ {w}) \cup {[w EXCEPT !.next = @ + 1]},
                   !.resolved = @ \/ (w.kind = "final" /\ w.next = FileChunks)]
    /\ UNCHANGED managerVars

\* a write of an open file fails: writeFile rejects and writes no more
WriteFails(w) ==
    /\ ~call.exited
    /\ w.next \in 1..FileChunks
    /\ call.failures < MaxWriteFailures
    /\ call' = [call EXCEPT !.failures = @ + 1, !.writers = @ \ {w}]
    /\ UNCHANGED managerVars

\* the interrupt handler's save is done: process.exit(130) ends the process
\* and every write still in flight
Exit ==
    /\ ~call.exited
    /\ call.interrupted
    /\ \A w \in call.writers : w.kind # "interrupt"
    /\ call' = [call EXCEPT !.exited = TRUE, !.writers = {}]
    /\ UNCHANGED managerVars

FileNext ==
    \/ ~call.exited /\ start
    \/ ~call.exited /\ LoopAdmit
    \/ ~call.exited /\ LoopObserve
    \/ ~call.exited /\ LoopExit
    \/ \E t \in Ids : ~call.exited /\ SdkSucceeds(t)
    \/ AutoSave
    \/ FinalSave
    \/ Interrupt
    \/ \E w \in call.writers : OpenFile(w)
    \/ \E w \in call.writers : WriteChunk(w)
    \/ \E w \in call.writers : WriteFails(w)
    \/ Exit

FileSpec == FileInit /\ [][FileNext]_vars

----------------------------------------------------------------------------
(* The events of a run: independent tasks whose executors end, throw or are *)
(* aborted, followed step by step through run() and the handlers startTask  *)
(* attaches.  call holds, per task, the TaskState run() is about to return  *)
(* once it has emitted its event and the stored error, and also the last    *)
(* lifecycle event the manager emitted, with the stored state it passed,    *)
(* and how the last run that ended did end.                                 *)

\* the messages of the errors an executor or a log write throws
ErrorMessages == {"query failed", "write failed"}

\* no lifecycle event emitted yet
NoEvent == [name |-> "none", taskId |-> "", status |-> "pending", cost |-> 0]

\* no run of the task has ended yet
NotSettled ==
    [how |-> "none", taskId |-> "", thrown |-> FALSE, aborted |-> FALSE,
     message |-> ""]

EventInit ==
    /\ Constructed(IndependentBatch, MinConcurrent)
    /\ call = [result |-> [t \in Ids |-> Undefined],
               event |-> NoEvent,
               error |-> [t \in Ids |-> Undefined],
               settled |-> NotSettled]

\* what a step of run() before its return leaves alone
eventFrame ==
    <<batch, maxConcurrent, status, batchStatus, pc, completed, failed,
      running, runners, aborted, pendingEscalations, paused, retried,
      cancelHist, cancelAllCalled, restarted, escCancelled, opCalls, cost,
      totalCost>>

\* what the .then and .catch of runner.run() leave alone
settleFrame ==
    <<batch, maxConcurrent, batchStatus, pc, completed, failed, running,
      pendingEscalations, paused, retried, cancelHist, cancelAllCalled,
      restarted, escCancelled, opCalls, totalCost>>

\* run() is inside executeQuery
InQuery(t) == runners[t] = "sdk" /\ call.result[t] = Undefined

\* this.emit('task_completed', task.id, this.state.tasks[task.id]) and
\* this.emit('task_failed', ...): the stored state of the task at that moment
Emitted(name, t) ==
    [name |-> name, taskId |-> t, status |-> status[t], cost |-> cost[t]]

\* executeQuery returns: run() assigns cost, emits 'completed', on which the
\* manager emits task_completed, and goes on to write its log and result
QueryReturns(t) ==
    /\ InQuery(t)
    /\ call' = [call EXCEPT
                  !.result[t] = Some([status |-> "completed", cost |-> RunCost,
                                      error |-> Undefined, thrown |-> FALSE,
                                      aborted |-> FALSE]),
                  !.event = Emitted("task_completed", t)]
    /\ UNCHANGED eventFrame

CatchAlwaysCancelled(t, message, c) ==
    /\ call' = [call EXCEPT
                  !.result[t] = Some([status |-> "cancelled", cost |-> c,
                                      error |-> Undefined, thrown |-> TRUE,
                                      aborted |-> aborted[t]])]
    /\ UNCHANGED eventFrame

\* the catch block of run(): with the abort signal set it goes on to return
\* status cancelled; otherwise it emits 'failed', on which the manager emits
\* task_failed, and goes on to return status failed with the error message
Catch(t, message, c) ==
    /\ call' = [call EXCEPT
                  !.result[t] =
                      IF aborted[t]
                      THEN Some([status |-> "cancelled", cost |-> c,
                                 error |-> Undefined, thrown |-> TRUE,
                                 aborted |-> TRUE])
                      ELSE Some([status |-> "failed", cost |-> c,
                                 error |-> Some(message), thrown |-> TRUE,
                                 aborted |-> FALSE]),
                  !.event =
                      IF aborted[t] THEN @ ELSE Emitted("task_failed", t)]
    /\ UNCHANGED eventFrame

\* executeQuery throws
QueryThrows(t, message) ==
    /\ InQuery(t)
    /\ Catch(t, message, CaughtCost)

\* appendToLog or saveTaskResult throws after 'completed' was emitted: the
\* try block is left for the catch block, with the cost already assigned
LogThrows(t, message) ==
    /\ call.result[t] # Undefined
    /\ call.result[t][1].status = "completed"
    /\ Catch(t, message, RunCost)

\* the stored task after updateTaskState(this.state, task.id, update)
Settle(t, how, update) ==
    /\ status' = updateTaskState(status, t, update.status)
    /\ cost' = [cost EXCEPT ![t] = update.cost]
    /\ runners' = [runners EXCEPT ![t] = "none"]
    /\ aborted' = [aborted EXCEPT ![t] = FALSE]
    /\ call' = [call EXCEPT
                  !.result[t] = Undefined,
                  !.error[t] = IF update.hasError THEN update.error ELSE @,
                  !.settled = [how |-> how, taskId |-> t,
                               thrown |-> update.thrown,
                               aborted |-> update.aborted,
                               message |-> update.message]]
    /\ UNCHANGED settleFrame

\* run() returns its TaskState: the .then of startTask merges it into the
\* stored state and removes the runner
RunReturns(t) ==
    /\ call.result[t] # Undefined
    /\ LET r == call.result[t][1]
       IN Settle(t, "returned",
                 [status |-> r.status, cost |-> r.cost,
                  hasError |-> r.status = "failed", error |-> r.error,
                  thrown |-> r.thrown, aborted |-> r.aborted,
                  message |-> IF r.error = Undefined THEN "" ELSE r.error[1]])

\* run() rejects: appendToLog throws before the try block, or appendToLog
\* or saveTaskResult throws inside the catch block.  The .catch of
\* startTask stores status failed and error.message and removes the runner
RunThrows(t, message) ==
    /\ \/ InQuery(t)
       \/ call.result[t] # Undefined /\ call.result[t][1].thrown
    /\ Settle(t, "rejected",
              [status |-> "failed", cost |-> cost[t], hasError |-> TRUE,
               error |-> Some(message), thrown |-> TRUE, aborted |-> FALSE,
               message |-> message])

\* cancelTask(taskId) during the run: the abort signal of the runner is set
AbortRun(t) ==
    /\ OperatorCall
    /\ runners[t] # "none"
    /\ aborted' = [aborted EXCEPT ![t] = TRUE]
    /\ UNCHANGED <<batch, maxConcurrent, status, batchStatus, pc, completed,
                   failed, running, runners, pendingEscalations, paused,
                   retried, cancelHist, cancelAllCalled, restarted,
                   escCancelled, cost, totalCost, call>>

EventNext ==
    \/ start
    \/ LoopAdmit
    \/ LoopObserve
    \/ LoopExit
    \/ \E t \in Ids : QueryReturns(t)
    \/ \E t \in Ids, message \in ErrorMessages : QueryThrows(t, message)
    \/ \E t \in Ids, message \in ErrorMessages : LogThrows(t, message)
    \/ \E t \in Ids : RunReturns(t)
    \/ \E t \in Ids, message \in ErrorMessages : RunThrows(t, message)
    \/ \E t \in Ids : AbortRun(t)

EventSpec == EventInit /\ [][EventNext]_vars

----------------------------------------------------------------------------
(* Escalations and the front end that listens to them: the run command      *)
(* answers inside its 'escalation' listener, the TUI stores the request for *)
(* its escalation panel and answers when the operator chooses.  call holds  *)
(* the front end, the request the TUI displays, the number of escalations   *)
(* every task raised and the responses its executor received.               *)

\* the escalations one task raises in a run
MaxEscalations == 1

FrontInit ==
    /\ \E limit \in MinConcurrent..MaxConcurrentLimit :
          Constructed(IndependentBatch, limit)
    /\ \E frontEnd \in {"cli", "tui"} :
          call = [frontEnd |-> frontEnd, escalation |-> Undefined,
                  raised |-> [t \in Ids |-> 0],
                  received |-> [t \in Ids |-> <<>>]]

\* the runners, the pending requests, the responses received and the
\* request the TUI displays
Listening(phases, pending, received, escalation) ==
    [runners |-> phases, pendingEscalations |-> pending, received |-> received,
     escalation |-> escalation]

\* QueueManager.resolveEscalation(taskId, response) on these
Resolved(x, taskId, response) ==
    [x EXCEPT !.runners = Unblocked(x.runners, taskId),
              !.received = Delivered(x.received, x.runners, taskId, response),
              !.pendingEscalations = @ \ {taskId}]

\* runner.emit('escalation', request): the listener of startTask records
\* the request and emits 'escalation' on the manager; the listener of the
\* run command answers agent_decide at once, the listener of the TUI calls
\* setEscalation(request)
emitEscalation(x, frontEnd, taskId) ==
    LET recorded == [x EXCEPT !.pendingEscalations = @ \cup {taskId}]
    IN IF frontEnd = "cli"
       THEN Resolved(recorded, taskId, "agent_decide")
       ELSE [recorded EXCEPT !.escalation = Some(taskId)]

emitThenRegister(x, frontEnd, taskId) ==
    [emitEscalation(x, frontEnd, taskId) EXCEPT !.runners[taskId] = "waitEsc"]

\* TaskRunner.handleEscalation(request): this.escalationResolver = resolve,
\* then the event is emitted, all inside the promise executor
registerThenEmit(x, frontEnd, taskId) ==
    emitEscalation([x EXCEPT !.runners[taskId] = "waitEsc"], frontEnd, taskId)

\* the executor of t finds an escalation request in the output and calls
\* handleEscalation; when the response arrived inside the call it goes on
Escalates(t) ==
    /\ runners[t] = "sdk"
    /\ call.raised[t] < MaxEscalations
    /\ LET x == registerThenEmit(Listening(runners, pendingEscalations,
                                           call.received, call.escalation),
                                 call.frontEnd, t)
       IN /\ runners' = x.runners
          /\ pendingEscalations' = x.pendingEscalations
          /\ call' = [call EXCEPT !.raised[t] = @ + 1,
                                  !.received = x.received,
                                  !.escalation = x.escalation]
    /\ UNCHANGED <<escalationFrame, aborted, opCalls>>

\* App.handleEscalationResponse(response): the displayed request, if any,
\* is answered through the manager and the panel is cleared
handleEscalationResponse(response) ==
    /\ call.frontEnd = "tui"
    /\ call.escalation # Undefined
    /\ LET x == Resolved(Listening(runners, pendingEscalations, call.received,
                                   call.escalation),
                         call.escalation[1], response)
       IN /\ runners' = x.runners
          /\ pendingEscalations' = x.pendingEscalations
          /\ call' = [call EXCEPT !.received = x.received,
                                  !.escalation = Undefined]
    /\ UNCHANGED <<escalationFrame, aborted, opCalls>>

FrontNext ==
    \/ start
    \/ LoopAdmit
    \/ LoopObserve
    \/ LoopExit
    \/ \E t \in Ids : SdkSucceeds(t)
    \/ \E t \in Ids : Escalates(t)
    \/ \E response \in EscalationActions : handleEscalationResponse(response)

FrontSpec == FrontInit /\ [][FrontNext]_vars

----------------------------------------------------------------------------
(* The configured limit: the run command passes --max-concurrent, when the  *)
(* option is given, through parseInt to the manager, which otherwise takes  *)
(* the limit of the batch file.  The manager runs batches whose executors   *)
(* end or fail, with limits that are zero, negative or positive.            *)

\* the lowest limit configured is -MaxNegativeLimit
MaxNegativeLimit == 2

\* loadTaskFile: raw.maxConcurrent ?? 3
DefaultMaxConcurrent == 3

\* the values of --max-concurrent: not given, or the text of an integer
ConcurrencyOptions == Optional((0 - MaxNegativeLimit)..MinConcurrent)

\* options.maxConcurrent ?? batch.maxConcurrent, where runCommand passes
\* undefined when the option is not given and its parsed value otherwise:
\* the option's text is a non-empty string, so "0" is passed as 0
configuredLimit(option, batchLimit) ==
    IF option = Undefined THEN batchLimit ELSE option[1]

LimitInit ==
    /\ \E tasks \in Batches, option \in ConcurrencyOptions :
          Constructed(tasks, configuredLimit(option, DefaultMaxConcurrent))
    /\ call = NoCall

LimitNext ==
    \/ start
    \/ LoopAdmit
    \/ LoopObserve
    \/ LoopExit
    \/ \E t \in Ids : SdkSucceeds(t)
    \/ \E t \in Ids : SdkThrows(t)
    \/ \E t \in Ids : SubSucceeds(t)
    \/ \E t \in Ids : SubFails(t)

LimitSpec == LimitInit /\ [][LimitNext]_vars

----------------------------------------------------------------------------
(* Fairness: the event loop keeps running the control loop's timers and     *)
(* every executor that can make a step; operator calls are never forced.    *)

RunnerOf(t) == t \in Ids /\ Runner(t)

FairSpec ==
    /\ Spec
    /\ WF_vars(Loop)
    /\ \A t \in AllIds : WF_vars(RunnerOf(t))

----------------------------------------------------------------------------
(* Properties *)

ActiveRunners == {t \in Ids : runners[t] # "none"}

\* the ids of the tasks t depends on, directly or transitively
DependencyIds(t) ==
    LET ds == getDependencies(batch, t) IN {ds[i].id : i \in 1..Len(ds)}

\* start() returns in this step
Returns == pc = "top" /\ pc' = "done"

\* C1: for maxConcurrent >= 1 the running set of the control loop, and the
\* set of active executors, never hold more than maxConcurrent tasks.
C1_ConcurrencyBounded ==
    maxConcurrent >= 1 =>
        /\ Len(running) <= maxConcurrent
        /\ Cardinality(ActiveRunners) <= maxConcurrent

\* C1 witness: every slot is taken, another task is ready and has to wait,
\* and a retry and a cancellation have happened in this run.
C1_Witness ==
    /\ maxConcurrent = 2
    /\ Len(running) = 2
    /\ Cardinality(ActiveRunners) = 2
    /\ Len(getReadyTasks(batch, completed, Range(running))) > 0
    /\ retried # {}
    /\ cancelHist # {}

\* C2: a task that has been started (it is in the running set, has an
\* executor, or its stored status is no longer pending) has every dependency
\* in the loop's completed set, with stored status completed.
C2_StartedAfterDependencies ==
    \A i \in 1..Len(batch) :
        LET task == batch[i] IN
        (\/ task.id \in Range(running)
         \/ runners[task.id] # "none"
         \/ status[task.id] # "pending")
        => \A j \in 1..Len(task.dependsOn) :
              /\ task.dependsOn[j] \in completed
              /\ status[task.dependsOn[j]] = "completed"

\* C2 witness: in the diamond with two slots D has been started.
C2_Witness ==
    /\ batch = DiamondBatch
    /\ maxConcurrent = 2
    /\ status["D"] = "running"
    /\ runners["D"] # "none"

\* C3 (as claimed): a task the loop has counted as failed is started again
\* only if retryTask was called for it.
C3_StartedOnce == restarted \subseteq retried

\* C4 (as claimed): when F failed, is never retried or cancelled, and G
\* depends on F, start() returns with batch status failed and G pending.
C4_FailedDependencyEndsBatch ==
    [][ ( /\ Returns
          /\ batch = ChainBatch
          /\ "F" \in failed
          /\ "F" \notin retried
          /\ cancelHist = {}
          /\ ~cancelAllCalled )
        => (batchStatus' = "failed" /\ status'["G"] = "pending") ]_vars

\* C5 (as claimed): without retries and cancellations, when start() returns
\* every task that neither failed nor depends, directly or transitively, on
\* a task that failed has stored status completed.
C5_IndependentBranchesComplete ==
    [][ (Returns /\ retried = {} /\ cancelHist = {} /\ ~cancelAllCalled)
        => \A t \in Ids :
              (({t} \cup DependencyIds(t)) \cap failed = {})
              => status'[t] = "completed" ]_vars

\* C6 (as claimed): once start() has returned no task has status running
\* and no executor is active.
C6_NothingRunningAtReturn ==
    pc = "done" => \A t \in Ids : status[t] # "running" /\ runners[t] = "none"

\* C7 (as claimed): a final batch status of completed implies that every
\* task of the batch has status completed.
C7_CompletedMeansAllCompleted ==
    [][ (Returns /\ batchStatus' = "completed")
        => \A t \in Ids : status'[t] = "completed" ]_vars

\* C8 (as claimed): a task whose running executor got cancelTask ends with
\* status cancelled: once its executor is gone its stored status is cancelled.
C8_CancelledTaskEndsCancelled ==
    \A t \in Ids :
        (t \in cancelHist /\ runners[t] = "none") => status[t] = "cancelled"

\* C9 (as claimed): when cancelAll was called during the run, the batch
\* status after start() returned is cancelled.
C9_CancelAllEndsCancelled ==
    (pc = "done" /\ cancelAllCalled) => batchStatus = "cancelled"

\* C10 (as claimed): an executor that was cancelled while it was waiting for
\* an escalation response does not stay blocked in that wait: it eventually
\* ends, whether or not resolveEscalation is ever called.
C10_CancelUnblocksEscalation ==
    \A t \in AllIds :
        [](( t \in Ids /\ t \in escCancelled /\ runners[t] = "waitEsc")
           => <>(t \in Ids /\ runners[t] = "none"))

\* C11: while the manager is paused no task is started: no stored status
\* becomes running, no executor is created and the loop's running set does
\* not grow in a step taken from a paused state.  Executors that already
\* run keep going (see C11_Witness).
C11_NoAdmissionWhilePaused ==
    [][paused =>
         \A t \in Ids :
            /\ status'[t] = "running" => status[t] = "running"
            /\ runners'[t] # "none" => runners[t] # "none"
            /\ Len(running') <= Len(running)]_vars

\* paused, the loop waits in waitForResume with a ready task and a free slot,
\* and an executor that was running has finished
C11_Witness ==
    /\ paused
    /\ pc = "waitResume"
    /\ Len(toStart) > 0
    /\ \E t \in Range(running) : Finished(t)

\* C12: retryTask returns only for a task of the batch whose status is
\* failed, and then only that task changes: status pending, error and
\* completedAt undefined, every other field (sessionId among them) as
\* before.  For an unknown id or any other status it throws and the batch
\* state is the one before the call.
C12_RetryOnlyFailed ==
    call.op = "retryTask" =>
        IF call.arg \in Ids /\ call.before.tasks[call.arg].status = "failed"
        THEN /\ call.error = "none"
             /\ call.after =
                   [call.before EXCEPT !.tasks[call.arg] =
                       [@ EXCEPT !.status = "pending", !.error = Undefined,
                                 !.completedAt = Undefined]]
             /\ call.after.tasks[call.arg].sessionId
                   = call.before.tasks[call.arg].sessionId
        ELSE /\ call.error # "none"
             /\ call.after = call.before

\* retryTask returned for a failed task that carried a session id, an error
\* and a completion time
C12_Witness ==
    /\ call.op = "retryTask"
    /\ call.error = "none"
    /\ call.before.tasks[call.arg].status = "failed"
    /\ call.before.tasks[call.arg].sessionId # Undefined
    /\ call.before.tasks[call.arg].error # Undefined
    /\ call.before.tasks[call.arg].completedAt # Undefined
    /\ call.after.tasks[call.arg].status = "pending"

\* the loop can no longer admit t: t sits in the loop's running set without
\* an executor and without a terminal status.  getReadyTasks skips members
\* of running, waitForAnyComplete only reports terminal statuses, and no
\* step of the loop or of an executor changes either, so the state lasts.
Stranded(t) ==
    /\ t \in Range(running)
    /\ runners[t] = "none"
    /\ status[t] = "pending"

\* C13: after a successful retryTask(t) the loop re-admits t, whenever the
\* retry is made; so a retried task that waits as pending is never left
\* where the loop cannot admit it.
C13_RetriedTaskReadmitted ==
    \A t \in Ids : (t \in retried /\ status[t] = "pending") => ~Stranded(t)

\* C14: resumeBatch turns every task recorded as running into pending with
\* its sessionId as recorded, and leaves every other task, and the fields of
\* the batch, as recorded.
C14_ResumeResetsRunning ==
    call.op = "resumeBatch" =>
        /\ DOMAIN call.after.tasks = DOMAIN call.before.tasks
        /\ \A t \in DOMAIN call.before.tasks :
              IF call.before.tasks[t].status = "running"
              THEN /\ call.after.tasks[t].status = "pending"
                   /\ call.after.tasks[t].sessionId = call.before.tasks[t].sessionId
              ELSE call.after.tasks[t] = call.before.tasks[t]
        /\ [call.after EXCEPT !.tasks = call.before.tasks] = call.before

\* resumeBatch was applied to a state with a running task that had a session
\* id and a task in another status
C14_Witness ==
    /\ call.op = "resumeBatch"
    /\ \E t, u \in DOMAIN call.before.tasks :
          /\ call.before.tasks[t].status = "running"
          /\ call.before.tasks[t].sessionId = Some("s1")
          /\ call.after.tasks[t].status = "pending"
          /\ call.before.tasks[u].status = "failed"

\* C15: in a resumed run a task recorded as completed in the saved state is
\* never started again: it keeps status completed and gets no executor.
C15_CompletedNotRestarted ==
    call.op = "resumeBatch" =>
        \A t \in Ids :
            call.before.tasks[t].status = "completed" =>
                status[t] = "completed" /\ runners[t] = "none"

\* the state with every task recorded as running set to pending
RunningToPending(state) ==
    [state EXCEPT !.tasks =
        [t \in DOMAIN @ |->
            IF @[t].status = "running" THEN [@[t] EXCEPT !.status = "pending"]
            ELSE @[t]]]

\* the state without the progress indicators of its tasks
WithoutProgress(state) ==
    [state EXCEPT !.tasks =
        [t \in DOMAIN @ |->
            [@[t] EXCEPT !.currentTool = Undefined, !.progress = Undefined]]]

\* C16 as stated: a saved and reloaded state equals the saved one in every
\* field, progress indicators included, except that running tasks are pending.
C16_ReloadEqualsSaved ==
    call.op = "reload" => call.after = RunningToPending(call.before)

\* C16, amended: a saved and reloaded state equals the saved one in the batch
\* fields and in status, sessionId, timestamps, cost, result and error of
\* every task, except that running tasks are pending; the progress
\* indicators (currentTool, progress) are not saved and are undefined after
\* the reload.
C16_ReloadEqualsSavedWithoutProgress ==
    call.op = "reload" =>
        call.after = WithoutProgress(RunningToPending(call.before))

\* a state was reloaded in which a running task had a session id, a start
\* time, a progress text and a current tool
C16_Witness ==
    /\ call.op = "reload"
    /\ \E t \in DOMAIN call.before.tasks :
          /\ call.before.tasks[t].status = "running"
          /\ call.before.tasks[t].sessionId # Undefined
          /\ call.before.tasks[t].startedAt # Undefined
          /\ call.before.tasks[t].progress # Undefined
          /\ call.before.tasks[t].currentTool # Undefined
          /\ call.after.tasks[t].status = "pending"
          /\ call.after.tasks[t].progress = Undefined

\* C17: after every update of the batch state the stored totalCost is the
\* sum of the costs stored for the tasks.
C17_TotalCostIsSum == totalCost = SumCost(cost, Ids)

\* the changes of a task's stored status the lifecycle allows
AllowedTransitions ==
    {<<"pending", "running">>, <<"running", "completed">>,
     <<"running", "failed">>, <<"running", "cancelled">>,
     <<"failed", "pending">>}

\* C18: every change of a task's stored status is one of pending -> running,
\* running -> completed, running -> failed, running -> cancelled and
\* failed -> pending, the last one only in a step in which retryTask
\* succeeds for the task.
C18_StatusTransitions ==
    [][\A t \in Ids :
          status'[t] # status[t] =>
              /\ <<status[t], status'[t]>> \in AllowedTransitions
              /\ status[t] = "failed" => (t \in retried' /\ opCalls' = opCalls + 1)]_vars

\* the ids declared by tasks
DeclaredIds(tasks) == {tasks[i].id : i \in 1..Len(tasks)}

\* id depends directly on dep
DependsOn(tasks, id, dep) ==
    \E i \in 1..Len(tasks) :
        /\ tasks[i].id = id
        /\ \E j \in 1..Len(tasks[i].dependsOn) : tasks[i].dependsOn[j] = dep

\* a chain of at most n dependencies leads from id to dep
RECURSIVE DependsWithin(_, _, _, _)
DependsWithin(tasks, id, dep, n) ==
    /\ n > 0
    /\ \/ DependsOn(tasks, id, dep)
       \/ \E mid \in DeclaredIds(tasks) :
             DependsOn(tasks, id, mid) /\ DependsWithin(tasks, mid, dep, n - 1)

\* some task depends on itself, directly or through other tasks
HasCycle(tasks) ==
    \E id \in DeclaredIds(tasks) : DependsWithin(tasks, id, id, Len(tasks))

\* every id in a dependsOn list is declared
DependenciesExist(tasks) ==
    \A i \in 1..Len(tasks) : \A j \in 1..Len(tasks[i].dependsOn) :
        tasks[i].dependsOn[j] \in DeclaredIds(tasks)

\* C19: for an acyclic task list whose dependencies are all declared,
\* topologicalSort returns a list that holds every input task exactly once
\* and every task after all the tasks it depends on.
C19_SortIsTopologicalOrder ==
    (call.op = "topologicalSort" /\ ~HasCycle(call.before)
        /\ DependenciesExist(call.before)) =>
        /\ call.error = "none"
        /\ Len(call.after) = Len(call.before)
        /\ \A i \in 1..Len(call.before) :
              Cardinality({k \in 1..Len(call.after) : call.after[k] = call.before[i]}) = 1
        /\ \A k \in 1..Len(call.after) :
              \A j \in 1..Len(call.after[k].dependsOn) :
                 \E e \in 1..(k - 1) : call.after[e].id = call.after[k].dependsOn[j]

\* a list of three tasks was sorted into an order that is not the declared
\* one: the first declared task depends on a later one
C19_Witness ==
    /\ call.op = "topologicalSort"
    /\ ~HasCycle(call.before) /\ DependenciesExist(call.before)
    /\ Len(call.before) = 3
    /\ Len(call.before[1].dependsOn) = 2
    /\ call.error = "none"
    /\ call.after # call.before

\* C20: for a task list whose dependencies contain a cycle topologicalSort
\* throws the circular-dependency error and returns no list.
C20_CycleIsRejected ==
    (call.op = "topologicalSort" /\ HasCycle(call.before)) =>
        call.error = CircularError /\ call.after = <<>>

\* the error was thrown for a task that depends on itself, and for two tasks
\* that depend on each other while a third task does not depend on them
C20_Witness ==
    /\ call.op = "topologicalSort"
    /\ call.error = CircularError
    /\ Len(call.before) = 3
    /\ \/ DependsOn(call.before, "X", "X")
       \/ /\ DependsOn(call.before, "X", "Y") /\ DependsOn(call.before, "Y", "X")
          /\ call.before[3].dependsOn = <<>>

\* C21: for every task list, completed set and running set, getReadyTasks
\* returns exactly the tasks whose id is in neither set and whose every
\* dependsOn id is in the completed set, each once and in the order of the
\* list, and nothing else
C21_ReadyTasksExact ==
    call.op = "getReadyTasks" =>
        LET tasks == call.before
            ready == call.after
            Ready(i) ==
                /\ tasks[i].id \notin call.arg.completed \cup call.arg.running
                /\ \A d \in Range(tasks[i].dependsOn) : d \in call.arg.completed
            Position(k) == Cardinality({i \in 1..Len(tasks) : Ready(i) /\ i <= k})
        IN /\ Len(ready) = Cardinality({i \in 1..Len(tasks) : Ready(i)})
           /\ \A i \in 1..Len(tasks) : Ready(i) => ready[Position(i)] = tasks[i]

C21_Witness ==
    /\ call.op = "getReadyTasks"
    /\ Len(call.before) = 2
    /\ Len(call.after) = 1
    /\ call.after[1].id = "Y"
    /\ call.after[1].dependsOn = <<"Z">>
    /\ call.before[1].dependsOn = <<>>
    /\ call.arg.running = {"X"}
    /\ call.arg.completed = {"Z"}

\* the tasks the control loop has started so far: a started task is in the
\* running set until it is observed and in a result set from then on
Started(t) ==
    \/ t \in completed
    \/ t \in failed
    \/ \E i \in 1..Len(running) : running[i] = t

\* C22: the three independent tasks P, Q, R are started in the order they
\* are declared in, so the started tasks are always the first of the list;
\* with maxConcurrent = 1 at most one task runs at a time, and Q starts
\* after P has completed and R after Q has completed
C22_DeclarationOrder ==
    batch = IndependentBatch =>
        /\ Started("Q") => Started("P")
        /\ Started("R") => Started("Q")
        /\ maxConcurrent = 1 =>
              /\ \A t, u \in Ids :
                    (status[t] = "running" /\ status[u] = "running") => t = u
              /\ \A t, u \in Ids :
                    (runners[t] # "none" /\ runners[u] # "none") => t = u
              /\ Len(running) <= 1
              /\ Started("Q") => "P" \in completed
              /\ Started("R") => "Q" \in completed

C22_Witness ==
    /\ batch = IndependentBatch
    /\ maxConcurrent = 1
    /\ completed = {"P", "Q"}
    /\ running = <<"R">>
    /\ status["R"] = "running"

\* the level of a task: 0 without dependencies, else one more than the
\* highest level of the tasks it depends on (n bounds the chain length)
RECURSIVE LevelOf(_, _, _)
LevelOf(tasks, id, n) ==
    LET deps == {dep \in DeclaredIds(tasks) : DependsOn(tasks, id, dep)}
    IN IF deps = {} \/ n = 0
       THEN 0
       ELSE 1 + MathMax({LevelOf(tasks, dep, n - 1) : dep \in deps})

\* the ids of a task list, in its order
IdsOf(tasks) == [k \in 1..Len(tasks) |-> tasks[k].id]

\* C23: for an acyclic task list whose dependencies are all declared,
\* analyzeDAG puts every task at level 0 if it has no dependencies and else
\* at 1 + the highest level of its dependencies: levels[i] holds exactly the
\* tasks of level i, each once; the levels of A, B<-A, C<-A, D<-B,C are
\* [[A],[B,C],[D]]
C23_LevelsByDependencies ==
    (call.op = "analyzeDAG" /\ ~HasCycle(call.before)
        /\ DependenciesExist(call.before)) =>
        LET tasks == call.before
            levels == call.after.levels
            Level(id) == LevelOf(tasks, id, Len(tasks))
        IN /\ call.error = "none"
           /\ \A k \in 1..Len(tasks) : Level(tasks[k].id) + 1 \in 1..Len(levels)
           /\ \A i \in 1..Len(levels) :
                 /\ Range(levels[i]) =
                       {tasks[k] : k \in {k \in 1..Len(tasks) : Level(tasks[k].id) = i - 1}}
                 /\ Cardinality(Range(levels[i])) = Len(levels[i])
           /\ tasks = DiamondBatch =>
                 [i \in 1..Len(levels) |-> IdsOf(levels[i])] =
                     << <<"A">>, <<"B", "C">>, <<"D">> >>

C23_Witness ==
    /\ call.op = "analyzeDAG"
    /\ call.before = DiamondBatch
    /\ call.error = "none"
    /\ Len(call.after.levels) = 3
    /\ Len(call.after.levels[2]) = 2

\* C24: for an empty task list analyzeDAG returns an empty topological
\* order and an empty list of levels
C24_EmptyListNoLevels ==
    (call.op = "analyzeDAG" /\ call.before = <<>>) =>
        /\ call.error = "none"
        /\ call.after.sorted = <<>>
        /\ call.after.levels = <<>>

C27_StaleResolutionReported ==
    (call.op = "resolveEscalation"
        /\ call.arg.taskId \notin call.before.pendingEscalations) =>
        /\ call.after = call.before
        /\ call.error = "StaleEscalationResolution"

\* C28: while a task is blocked on an escalation the control loop is not:
\* it never waits for a completion while a ready task and a free slot
\* exist; and another task's escalation is raised and resolved on its own:
\* raising it blocks that task only, resolving it unblocks that task and
\* leaves every other task blocked and pending as it was
C28_EscalationBlocksOnlyItsTask ==
    LET b == call.before
        a == call.after
    IN /\ pc = "wait" => Len(toStart) = 0
       /\ call.op = "handleEscalation" =>
             /\ a.runners[call.arg.taskId] = "waitEsc"
             /\ \A u \in Ids \ {call.arg.taskId} :
                   /\ a.runners[u] = b.runners[u]
                   /\ u \in a.pendingEscalations <=> u \in b.pendingEscalations
       /\ call.op = "resolveEscalation" =>
             /\ \A u \in Ids :
                   (u = call.arg.taskId /\ b.runners[u] = "waitEsc") =>
                       a.runners[u] = "sdk" /\ u \notin a.pendingEscalations
             /\ \A u \in Ids \ {call.arg.taskId} :
                   /\ a.runners[u] = b.runners[u]
                   /\ u \in a.pendingEscalations <=> u \in b.pendingEscalations

\* P is blocked on its escalation since before Q's escalation was resolved;
\* Q has completed since and R, admitted into Q's slot, is running
C28_Witness ==
    /\ maxConcurrent = 2
    /\ call.op = "resolveEscalation"
    /\ call.arg.taskId = "Q"
    /\ call.before.runners["P"] = "waitEsc"
    /\ call.before.runners["Q"] = "waitEsc"
    /\ runners["P"] = "waitEsc"
    /\ status["Q"] = "completed"
    /\ status["R"] = "running"

\* C29: no task of a batch whose dependency graph contains a cycle is ever
\* started, by the run command or by the resume command: the running set
\* of the control loop stays empty and no task has a runner
C29_CyclicBatchNeverStarted ==
    HasCycle(batch) =>
        /\ running = <<>>
        /\ \A t \in Ids : runners[t] = "none"

\* the file holds every part of one snapshot and nothing else
Complete(file) ==
    /\ Len(file) = FileChunks
    /\ file[1].data # Undefined
    /\ \A i \in 1..FileChunks : file[i] = [data |-> file[1].data, part |-> i]

\* C30: at most one write of the state file is in flight at a time, and the
\* file, once it exists, holds one complete snapshot whenever a reader may
\* read it, also while saves overlap and after a write has failed
C30_AtomicStateFile ==
    /\ Cardinality(call.writers) <= 1
    /\ call.exists => Complete(call.file)


\* the .then or .catch of runner.run() of task t runs in this step
Settles(t) == runners[t] # "none" /\ runners'[t] = "none"

\* the control loop's position and sets
loopVars == <<pc, running, completed, failed, batchStatus>>

\* C31 as stated: whenever a run that threw or rejected is settled, the task
\* is stored with status failed and the error message, and the control loop
\* is left where it was.
C31_ThrownRunStoredFailed ==
    [][\A t \in Ids :
          (Settles(t) /\ call'.settled.thrown)
              => /\ status'[t] = "failed"
                 /\ call'.error[t] = Some(call'.settled.message)
                 /\ UNCHANGED loopVars]_vars

\* C31: a run whose executor threw while the abort signal was clear, and a
\* run that rejected, is stored with status failed and the error message; a
\* run whose executor threw with the abort signal set is stored cancelled
\* and keeps its stored error.  In both cases the control loop is left
\* where it was, and it never ends while a task was not observed.
C31_FailureStoredLoopGoesOn ==
    [][\A t \in Ids :
          (Settles(t) /\ call'.settled.thrown)
              => /\ IF call'.settled.aborted
                    THEN /\ status'[t] = "cancelled"
                         /\ call'.error[t] = call.error[t]
                    ELSE /\ status'[t] = "failed"
                         /\ call'.error[t] = Some(call'.settled.message)
                 /\ UNCHANGED loopVars]_vars

\* with one slot, a task is in its first run after the failure of another
\* task was stored with its message and observed by the loop
C31_Witness ==
    /\ maxConcurrent = 1
    /\ pc = "wait"
    /\ \E t \in failed, u \in Ids \ (failed \cup completed) :
          /\ call.error[t] # Undefined
          /\ running = <<u>>
          /\ status[u] = "running"


\* C36: the stored state of a task at the moment task_completed is emitted
\* for it has status completed and the cost of the run that ended, and at
\* the moment task_failed is emitted it has status failed.
C36_EventCarriesFinalState ==
    /\ call.event.name = "task_completed"
          => call.event.status = "completed" /\ call.event.cost = RunCost
    /\ call.event.name = "task_failed" => call.event.status = "failed"


\* C32: after updateTaskState(state, taskId, update) the returned state holds
\* for taskId its previous fields (the default task when it had no entry)
\* with the fields of update written over them, every other task's entry
\* and every batch-level field as they were in the input, and no entry for
\* any further id.
C32_UpdateChangesOneEntry ==
    call.op = "updateTaskState" =>
        LET input == call.before
            output == call.after
            previous == IF call.arg \in DOMAIN input.tasks
                        THEN input.tasks[call.arg] ELSE NewTaskState
        IN /\ DOMAIN output.tasks = DOMAIN input.tasks \cup {call.arg}
           /\ \A id \in DOMAIN input.tasks \ {call.arg} :
                 output.tasks[id] = input.tasks[id]
           /\ \A k \in DOMAIN input \ {"tasks"} : output[k] = input[k]
           /\ DOMAIN output = DOMAIN input
           /\ DOMAIN output.tasks[call.arg] = DOMAIN previous
           /\ \A k \in DOMAIN previous :
                 output.tasks[call.arg][k] =
                     IF k \in DOMAIN call.update THEN call.update[k]
                     ELSE previous[k]

\* a task that had a session, a cost and a result is updated and keeps them
C32_Witness ==
    /\ call.op = "updateTaskState"
    /\ call.arg \in DOMAIN call.before.tasks
    /\ call.before.tasks[call.arg].result # Undefined
    /\ call.before.tasks[call.arg].status = "failed"
    /\ call.after.tasks[call.arg].status = "pending"
    /\ call.after.tasks[call.arg].result # Undefined
    /\ call.after # call.before

\* tasks with the dependency of fromId on toId added
WithEdge(tasks, fromId, toId) ==
    [i \in 1..Len(tasks) |->
        IF tasks[i].id = fromId
        THEN Task(fromId, Append(tasks[i].dependsOn, toId))
        ELSE tasks[i]]

\* C33: for an acyclic task list whose dependencies are all declared and
\* any two ids, wouldCreateCycle(tasks, fromId, toId) returns true exactly
\* when the list with the dependency of fromId on toId added has a cycle,
\* and the call leaves the task list and every dependsOn as they were.
C33_TrueExactlyOnCycle ==
    (call.op = "wouldCreateCycle" /\ ~HasCycle(call.before)
        /\ DependenciesExist(call.before)) =>
        /\ call.after.value
              <=> HasCycle(WithEdge(call.before, call.arg.fromId, call.arg.toId))
        /\ call.after.tasks = call.before


\* C34: for an acyclic task list getDependencies(tasks, id) returns exactly
\* the tasks id reaches through one or more dependencies, and
\* getDependents(tasks, id) exactly the tasks that reach id; a task t is
\* among the dependents of a task id iff id is among the dependencies of t,
\* and neither result holds the task id itself.
C34_TransitiveClosures ==
    (call.op \in {"getDependencies", "getDependents"} /\ ~HasCycle(call.before)) =>
        LET tasks == call.before
            Reached(t) == DependsWithin(tasks, call.arg, t.id, Len(tasks))
            Reaches(t) == DependsWithin(tasks, t.id, call.arg, Len(tasks))
        IN /\ call.op = "getDependencies" => call.after = SelectSeq(tasks, Reached)
           /\ call.op = "getDependents" =>
                 /\ call.after = SelectSeq(tasks, Reaches)
                 /\ call.arg \in DeclaredIds(tasks) =>
                       \A i \in 1..Len(tasks) :
                          tasks[i] \in Range(call.after)
                             <=> call.arg \in DeclaredIds(getDependencies(tasks, tasks[i].id))
           /\ \A k \in 1..Len(call.after) : call.after[k].id # call.arg

\* the dependents of the first task of a chain of three were asked for
C34_Witness ==
    /\ call.op = "getDependents"
    /\ ~HasCycle(call.before)
    /\ Len(call.after) = 2
    /\ ~DependsOn(call.before, call.after[2].id, call.arg)
    /\ DependsOn(call.before, call.after[2].id, call.after[1].id)


\* C35: every member of the control loop's running set has an active
\* executor or a terminal stored status, and no member has the stored
\* status pending.
C35_RunningSetHoldsLiveTasks ==
    \A i \in 1..Len(running) :
        /\ runners[running[i]] # "none" \/ status[running[i]] \in Terminal
        /\ status[running[i]] # "pending"


\* C37: with the run command's listener, which answers inside the
\* 'escalation' event, every escalation a task raised was answered with
\* agent_decide and received by its executor, no executor waits for a
\* response, and no request is listed as pending.
C37_SynchronousResponseDelivered ==
    call.frontEnd = "cli" =>
        /\ pendingEscalations = {}
        /\ \A t \in Ids :
              /\ runners[t] # "waitEsc"
              /\ call.received[t] = [k \in 1..call.raised[t] |-> "agent_decide"]

\* a task escalated under the run command and went on to complete
C37_Witness ==
    /\ call.frontEnd = "cli"
    /\ \E t \in Ids :
          /\ call.raised[t] = 1
          /\ call.received[t] = <<"agent_decide">>
          /\ status[t] = "completed"

\* C40: in the TUI, whenever no request is displayed for an answer, no
\* executor is waiting for a response: an escalation that was raised stays
\* answerable until it is answered.
C40_OutstandingEscalationAnswerable ==
    (call.frontEnd = "tui" /\ call.escalation = Undefined) =>
        \A t \in Ids : runners[t] # "waitEsc"


\* the state file after a completed write of data and no other write
Written(data) == [i \in 1..FileChunks |-> [data |-> Some(data), part |-> i]]

\* C38: once start() has resolved, and as long as the process is not
\* interrupted, the state file holds the manager's in-memory state, which is
\* the final one: the batch status is terminal and so is every task's.
C38_FileHoldsFinalState ==
    (call.resolved /\ ~call.interrupted) =>
        /\ batchStatus \in Terminal
        /\ \A t \in Ids : status[t] \in Terminal
        /\ call.exists
        /\ call.file = Written(saveBatchState(managerState))


\* C39: for every configured maxConcurrent, zero and negative values
\* included, the control loop's running set and the set of active executors
\* never hold more than max(maxConcurrent, 0) tasks.
C39_BoundedForEveryLimit ==
    LET limit == IF maxConcurrent >= 0 THEN maxConcurrent ELSE 0
    IN /\ Len(running) <= limit
       /\ \A S \in SUBSET Ids :
             (\A t \in S : runners[t] # "none") => Cardinality(S) <= limit

====
